---- MODULE Spec2Model ----
(***************************************************************************)
(* A model of generate_mods.py: the mapping-path parser (LocationParser),  *)
(* the value splitter (Mapper._get_data_divs and the '||' split), the      *)
(* field mapper (Mapper.add_data), the data sheet reader                   *)
(* (DataHandler.get_mods_records), the driver loop (process) and the date  *)
(* reformatter (process_text_date).                                        *)
(*                                                                         *)
(* Text is a sequence of symbols.  The characters the code inspects        *)
(* ('<', '>', '/', ' ', '=', '"', '#', '\', '|') are one symbol each; a    *)
(* run of other characters (an element name, an attribute name, a word of  *)
(* data) is one symbol, which the code only ever copies or compares as a   *)
(* whole.  Indices are 0-based as in Python, -1 is "not found".            *)
(*                                                                         *)
(* A local variable of the code is a parameter of a LET operator, applied  *)
(* to the expression the code assigns to it.                               *)
(***************************************************************************)
EXTENDS Integers, Sequences, FiniteSets, TLC

(***************************************************************************)
(* Python string primitives                                                *)
(***************************************************************************)
Min(a, b) == IF a < b THEN a ELSE b

Max(a, b) == IF a < b THEN b ELSE a

\* the least element of a non-empty set of integers
Least(S) == CHOOSE k \in S : \A h \in S : k <= h

\* a Python slice bound, clamped as s[i:j] clamps it
PyBound(s, i) == IF i < 0 THEN Max(Len(s) + i, 0) ELSE Min(i, Len(s))

\* s[i:j]
PySlice(s, i, j) ==
    LET Cut(lo, hi) == IF hi <= lo THEN <<>> ELSE [k \in 1..(hi - lo) |-> s[lo + k]]
    IN  Cut(PyBound(s, i), PyBound(s, j))

\* s[i:]
PyFrom(s, i) == PySlice(s, i, Len(s))

\* s[:j]
PyTo(s, j) == PySlice(s, 0, j)

\* s[i] for an index that is in range once a negative i has wrapped around
PyAt(s, i) == IF i < 0 THEN s[Len(s) + i + 1] ELSE s[i + 1]

\* is s[i] an IndexError ?
PyOutOfRange(s, i) == i >= Len(s) \/ i < -Len(s)

\* s.find(c, from) for a one-character c
PyFind(s, c, from) ==
    LET First(hits) == IF hits = {} THEN -1 ELSE Least(hits)
    IN  First({k \in from..(Len(s) - 1) : s[k + 1] = c})

\* s.find(c1 + c2) for the two-character separator
PyFind2(s, c1, c2) ==
    LET First(hits) == IF hits = {} THEN -1 ELSE Least(hits)
    IN  First({k \in 0..(Len(s) - 2) : s[k + 1] = c1 /\ s[k + 2] = c2})

\* s.strip(): whitespace is the symbol " "
PyStrip(s) ==
    LET Keep(solid) ==
            IF solid = {} THEN <<>>
            ELSE PySlice(s, Least(solid) - 1, CHOOSE k \in solid : \A h \in solid : k >= h)
    IN  Keep({k \in 1..Len(s) : s[k] # " "})

RECURSIVE PySplit(_, _)
\* s.split(c) for a one-character separator: always at least one piece
PySplit(s, c) ==
    LET Cut(i) == IF i = -1 THEN <<s>>
                  ELSE <<PyTo(s, i)>> \o PySplit(PyFrom(s, i + 1), c)
    IN  Cut(PyFind(s, c, 0))

RECURSIVE PySplit2(_, _, _)
\* s.split(c1 + c2) for the two-character separator
PySplit2(s, c1, c2) ==
    LET Cut(i) == IF i = -1 THEN <<s>>
                  ELSE <<PyTo(s, i)>> \o PySplit2(PyFrom(s, i + 2), c1, c2)
    IN  Cut(PyFind2(s, c1, c2))

\* None, for a value that is either None or a non-empty text
None == <<>>

\* {} and d[k] = v on a Python dict
EmptyDict == [k \in {} |-> <<>>]

DictPut(d, key, val) ==
    [k \in (DOMAIN d) \cup {key} |-> IF k = key THEN val ELSE d[k]]

(***************************************************************************)
(* LocationParser                                                          *)
(***************************************************************************)
ParseError(msg) == [ok |-> FALSE, err |-> msg]

RECURSIVE ParseAttributesLoop(_, _)
\* the while loop of LocationParser._parse_attributes
ParseAttributesLoop(data, attributes) ==
    LET Value(equal, valStart, valEnd) ==
            IF valEnd > valStart
            THEN ParseAttributesLoop(PyStrip(PyFrom(data, valEnd + 1)),
                     DictPut(attributes, PyStrip(PyTo(data, equal)),
                             PySlice(data, valStart + 1, valEnd)))
            ELSE ParseError("Error parsing attributes!")
        Quote(equal, valStart) == Value(equal, valStart, PyFind(data, "\"", valStart + 1))
        Assign(equal) == Quote(equal, PyFind(data, "\"", equal + 1))
    IN  IF Len(data) = 0 THEN [ok |-> TRUE, attributes |-> attributes]
        ELSE Assign(PyFind(data, "=", 0))

\* LocationParser._parse_attributes
ParseAttributes(data) == ParseAttributesLoop(PyStrip(data), EmptyDict)

\* "space = tag.find(' '); if space > 0: ... else: ...", lines 770-776 and 811-817
ParseTag(tag) ==
    LET Named(name, attrs) ==
            IF attrs.ok
            THEN [ok |-> TRUE, element |-> name, attributes |-> attrs.attributes]
            ELSE attrs
        Split(space) ==
            IF space > 0
            THEN Named(PySlice(tag, 1, space), ParseAttributes(PySlice(tag, space, -1)))
            ELSE [ok |-> TRUE, element |-> PySlice(tag, 1, -1), attributes |-> EmptyDict]
    IN  Split(PyFind(tag, " ", 0))

\* LocationParser._parse_base_element
ParseBaseElement(data) ==
    LET Base(t, rest) ==
            IF t.ok
            THEN [ok |-> TRUE,
                  element |-> [element |-> t.element, attributes |-> t.attributes,
                               data |-> None],
                  rest |-> rest]
            ELSE t
        First(startTagPos, endTagPos) ==
            IF endTagPos > startTagPos
            THEN Base(ParseTag(PySlice(data, startTagPos, endTagPos + 1)),
                      PyFrom(data, endTagPos + 1))
            ELSE ParseError("Error parsing")
    IN  First(PyFind(data, "<", 0), PyFind(data, ">", 0))

RECURSIVE ParseSectionWithClosingTags(_, _)
\* a variant of the loop over a section without the test of line 808
ParseSectionWithClosingTags(section, new_section) ==
    LET Element(t, text, after) ==
            IF ~t.ok THEN t
            ELSE ParseSectionWithClosingTags(after, Append(new_section,
                     [element |-> t.element, attributes |-> t.attributes, data |-> text]))
        Text(tag, rest, next_tag_start) ==
            IF Len(rest) = 0 \/ next_tag_start = 0 THEN Element(ParseTag(tag), None, rest)
            ELSE IF next_tag_start = -1 THEN Element(ParseTag(tag), rest, <<>>)
            ELSE Element(ParseTag(tag), PyTo(rest, next_tag_start),
                         PyFrom(rest, next_tag_start))
        First(startTagPos, endTagPos) ==
            IF endTagPos > startTagPos
            THEN Text(PySlice(section, startTagPos, endTagPos + 1),
                      PyFrom(section, endTagPos + 1),
                      PyFind(PyFrom(section, endTagPos + 1), "<", 0))
            ELSE ParseError("Error parsing")
    IN  IF Len(section) = 0 THEN [ok |-> TRUE, elements |-> new_section]
        ELSE First(PyFind(section, "<", 0), PyFind(section, ">", 0))

RECURSIVE ParseSection(_, _)
\* the while loop over one section piece of LocationParser._parse
ParseSection(section, new_section) ==
    LET Element(t, text, after) ==
            IF ~t.ok THEN t
            ELSE ParseSection(after, Append(new_section,
                     [element |-> t.element, attributes |-> t.attributes, data |-> text]))
        Text(tag, rest, next_tag_start) ==
            IF Len(rest) = 0 \/ next_tag_start = 0 THEN Element(ParseTag(tag), None, rest)
            ELSE IF next_tag_start = -1 THEN Element(ParseTag(tag), rest, <<>>)
            ELSE Element(ParseTag(tag), PyTo(rest, next_tag_start),
                         PyFrom(rest, next_tag_start))
        NextTag(tag, rest) ==
            IF PyTo(tag, 2) = <<"<", "/">> THEN ParseSection(rest, new_section)
            ELSE Text(tag, rest, PyFind(rest, "<", 0))
        First(startTagPos, endTagPos) ==
            IF endTagPos > startTagPos
            THEN NextTag(PySlice(section, startTagPos, endTagPos + 1),
                         PyFrom(section, endTagPos + 1))
            ELSE ParseError("Error parsing")
    IN  IF Len(section) = 0 THEN [ok |-> TRUE, elements |-> new_section]
        ELSE First(PyFind(section, "<", 0), PyFind(section, ">", 0))

RECURSIVE ParseSections(_, _)
\* the for loop over the section pieces of LocationParser._parse
ParseSections(location_sections, sections) ==
    LET Keep(s) ==
            IF ~s.ok THEN s
            ELSE ParseSections(Tail(location_sections),
                     IF s.elements # <<>> THEN Append(sections, s.elements) ELSE sections)
    IN  IF location_sections = <<>> THEN [ok |-> TRUE, sections |-> sections]
        ELSE Keep(ParseSection(Head(location_sections), <<>>))

\* a variant of one pass of the attribute loop that keeps the text up to the
\* closing quote
AttributesAfterPassKeepingValue(data) ==
    LET Value(valStart, valEnd) ==
            IF valEnd > valStart
            THEN [raised |-> FALSE, data |-> PyStrip(PyFrom(data, valStart))]
            ELSE [raised |-> TRUE]
        Quote(valStart) == Value(valStart, PyFind(data, "\"", valStart + 1))
        Assign(equal) == Quote(PyFind(data, "\"", equal + 1))
    IN  Assign(PyFind(data, "=", 0))

\* one pass of the while loop of _parse_attributes (lines 842-852) on a
\* text that is not empty: the text the next pass starts with, or the raise
AttributesAfterPass(data) ==
    LET Value(valStart, valEnd) ==
            IF valEnd > valStart
            THEN [raised |-> FALSE, data |-> PyStrip(PyFrom(data, valEnd + 1))]
            ELSE [raised |-> TRUE]
        Quote(valStart) == Value(valStart, PyFind(data, "\"", valStart + 1))
        Assign(equal) == Quote(PyFind(data, "\"", equal + 1))
    IN  Assign(PyFind(data, "=", 0))

RECURSIVE AttributesLoop(_, _)
\* the while loop of _parse_attributes run for at most fuel passes: how it
\* ends, if it does
AttributesLoop(data, fuel) ==
    LET Pass(p) == IF p.raised THEN "raises" ELSE AttributesLoop(p.data, fuel - 1)
    IN  IF Len(data) = 0 THEN "ends"
        ELSE IF fuel = 0 THEN "no end"
        ELSE Pass(AttributesAfterPass(data))

\* a variant of one pass of the section loop that leaves a closing tag in
\* the section
SectionAfterPassKeepingClosingTag(section) ==
    LET After(rest, next_tag_start) ==
            IF Len(rest) = 0 \/ next_tag_start = 0 THEN rest
            ELSE IF next_tag_start = -1 THEN <<>>
            ELSE PyFrom(rest, next_tag_start)
        Tagged(tag, rest) ==
            IF PyTo(tag, 2) = <<"<", "/">> THEN [raised |-> FALSE, section |-> section]
            ELSE IF ~ParseTag(tag).ok THEN [raised |-> TRUE]
            ELSE [raised |-> FALSE, section |-> After(rest, PyFind(rest, "<", 0))]
        First(startTagPos, endTagPos) ==
            IF endTagPos > startTagPos
            THEN Tagged(PySlice(section, startTagPos, endTagPos + 1),
                        PyFrom(section, endTagPos + 1))
            ELSE [raised |-> TRUE]
    IN  First(PyFind(section, "<", 0), PyFind(section, ">", 0))

\* one pass of the while loop of _parse over a section (lines 800-833) on a
\* section that is not empty: the section the next pass starts with, or the
\* raise
SectionAfterPass(section) ==
    LET After(rest, next_tag_start) ==
            IF Len(rest) = 0 \/ next_tag_start = 0 THEN rest
            ELSE IF next_tag_start = -1 THEN <<>>
            ELSE PyFrom(rest, next_tag_start)
        Tagged(tag, rest) ==
            IF PyTo(tag, 2) = <<"<", "/">> THEN [raised |-> FALSE, section |-> rest]
            ELSE IF ~ParseTag(tag).ok THEN [raised |-> TRUE]
            ELSE [raised |-> FALSE, section |-> After(rest, PyFind(rest, "<", 0))]
        First(startTagPos, endTagPos) ==
            IF endTagPos > startTagPos
            THEN Tagged(PySlice(section, startTagPos, endTagPos + 1),
                        PyFrom(section, endTagPos + 1))
            ELSE [raised |-> TRUE]
    IN  First(PyFind(section, "<", 0), PyFind(section, ">", 0))

RECURSIVE SectionLoop(_, _)
\* the while loop of _parse over a section run for at most fuel passes: how
\* it ends, if it does
SectionLoop(section, fuel) ==
    LET Pass(p) == IF p.raised THEN "raises" ELSE SectionLoop(p.section, fuel - 1)
    IN  IF Len(section) = 0 THEN "ends"
        ELSE IF fuel = 0 THEN "no end"
        ELSE Pass(SectionAfterPass(section))

\* LocationParser.__init__ and _parse
LocationParser(raw) ==
    LET Parsed(base_element, ss, sectioned) ==
            IF ~ss.ok THEN ss
            ELSE [ok |-> TRUE, base_element |-> base_element, sections |-> ss.sections,
                  has_sectioned_data |-> sectioned]
        Pieces(base_element, location_sections) ==
            Parsed(base_element, ParseSections(location_sections, <<>>),
                   Len(location_sections) > 1)
        Rest(b) ==
            IF ~b.ok THEN b
            ELSE IF Len(b.rest) = 0
                 THEN [ok |-> TRUE, base_element |-> b.element, sections |-> <<>>,
                       has_sectioned_data |-> FALSE]
                 ELSE Pieces(b.element, PySplit(b.rest, "#"))
        Stripped(data) ==
            IF Len(data) = 0 THEN ParseError("IndexError")
            ELSE IF data[1] # "<" THEN ParseError("location data must start with <")
            ELSE Rest(ParseBaseElement(data))
    IN  Stripped(PyStrip(raw))

(***************************************************************************)
(* Value splitting: Mapper._get_data_divs and the '||' split of add_data   *)
(***************************************************************************)
RECURSIVE Unescape(_, _, _)
\* the inner while loop of _get_data_divs: drop the '\' before an escaped
\* '#' and look for the next '#'.  A pass with ind >= 1 shortens data by
\* one symbol and never lowers ind, so a loop that ends makes at most
\* Len(data) passes; fuel is that many passes, and running out of it is the
\* loop that never ends (ind = 0 with a trailing '\', where data[ind-1]
\* wraps around to the last symbol and data[:ind-1] + data[ind:] grows).
Unescape(data, ind, fuel) ==
    LET Again(d) == Unescape(d, PyFind(d, "#", ind), fuel - 1)
    IN  IF ind # -1 /\ PyAt(data, ind - 1) = "\\"
        THEN IF fuel = 0 THEN [returns |-> FALSE]
             ELSE Again(PyTo(data, ind - 1) \o PyFrom(data, ind))
        ELSE [returns |-> TRUE, data |-> data, ind |-> ind]

RECURSIVE DataDivsLoop(_, _)
\* the outer while loop of _get_data_divs
DataDivsLoop(data, data_divs) ==
    LET Cut(u) ==
            IF ~u.returns THEN u
            ELSE IF u.ind = -1
                 THEN [returns |-> TRUE, divs |-> Append(data_divs, u.data)]
                 ELSE DataDivsLoop(PyFrom(u.data, u.ind + 1),
                                   Append(data_divs, PyTo(u.data, u.ind)))
        Sep(ind) ==
            IF ind = -1 THEN [returns |-> TRUE, divs |-> Append(data_divs, data)]
            ELSE Cut(Unescape(data, ind, Len(data)))
    IN  IF Len(data) = 0 THEN [returns |-> TRUE, divs |-> data_divs]
        ELSE Sep(PyFind(data, "#", 0))

\* a variant of _get_data_divs without the test of line 621
GetDataDivsAlwaysSplit(data, has_sectioned_data) == DataDivsLoop(data, <<>>)

\* Mapper._get_data_divs
GetDataDivs(data, has_sectioned_data) ==
    IF ~has_sectioned_data THEN [returns |-> TRUE, divs |-> <<data>>]
    ELSE DataDivsLoop(data, <<>>)

RECURSIVE SelectNonEmpty(_)
\* the entries that are not empty, in order (the 'if data' of line 426)
SelectNonEmpty(entries) ==
    IF entries = <<>> THEN <<>>
    ELSE IF Len(Head(entries)) > 0
         THEN <<Head(entries)>> \o SelectNonEmpty(Tail(entries))
         ELSE SelectNonEmpty(Tail(entries))

\* a variant of DataEntries without the filter of line 426
DataEntriesUnfiltered(data) ==
    LET Strip(pieces) == [i \in 1..Len(pieces) |-> PyStrip(pieces[i])]
    IN  Strip(PySplit2(data, "|", "|"))

\* add_data line 424 and the filter of line 426: the stripped, non-empty entries
DataEntries(data) ==
    LET Strip(pieces) == SelectNonEmpty([i \in 1..Len(pieces) |-> PyStrip(pieces[i])])
    IN  Strip(PySplit2(data, "|", "|"))

\* add_data line 426: the divisions of every entry, or no return at all
DataVals(data, has_sectioned_data) ==
    LET All(divs) ==
            IF \E i \in 1..Len(divs) : ~divs[i].returns THEN [returns |-> FALSE]
            ELSE [returns |-> TRUE, vals |-> [i \in 1..Len(divs) |-> divs[i].divs]]
        Each(entries) ==
            All([i \in 1..Len(entries) |-> GetDataDivs(entries[i], has_sectioned_data)])
    IN  Each(DataEntries(data))

(***************************************************************************)
(* The MODS document (bdrxml.mods objects as the mapper uses them).  An    *)
(* optional field is None or Some(value); a repeatable field is a sequence.*)
(***************************************************************************)
Some(x) == <<x>>

\* "if key in attributes: obj.field = attributes[key]"
AttrOpt(attributes, key) ==
    IF <<key>> \in DOMAIN attributes THEN Some(attributes[<<key>>]) ELSE None

\* mods.make_mods(): the empty document
MakeMods ==
    [id |-> None, names |-> <<>>, title_info_list |-> <<>>, languages |-> <<>>,
     genres |-> <<>>, origin_info |-> None, physical_description |-> None,
     resource_type |-> None, abstract |-> None, notes |-> <<>>, subjects |-> <<>>,
     identifiers |-> <<>>, locations |-> <<>>, related_items |-> <<>>]

\* the block create_origin_info() makes
NewOriginInfo ==
    [label |-> None, created |-> <<>>, issued |-> <<>>, captured |-> <<>>,
     valid |-> <<>>, modified |-> <<>>, copyright |-> <<>>, other |-> <<>>,
     places |-> <<>>, publisher |-> None]

\* the block create_physical_description() makes
NewPhysicalDescription == [extent |-> None, digital_origin |-> None, note |-> None]

\* the names add_data keeps in _cleared_fields
ClearedKeys ==
    {"names", "title_info_list", "languages", "genres", "origin_info",
     "physical_description", "typeOfResource", "abstract", "notes", "subjects",
     "identifiers", "locations", "related"}

\* the outcome of a step that may raise: err = "" when it returned normally
Result(doc, err) == [doc |-> doc, err |-> err]

NoError == ""

\* "for data in data_vals: build an entry; collection.append(entry)" where
\* building may raise: the entries built before the failure stay appended
AppendUntilError(collection, results) ==
    LET Upto(bad) ==
            IF bad = {}
            THEN [items |-> collection \o [i \in 1..Len(results) |-> results[i].entry],
                  err |-> NoError]
            ELSE [items |-> collection \o [i \in 1..(Least(bad) - 1) |-> results[i].entry],
                  err |-> results[Least(bad)].err]
    IN  Upto({i \in 1..Len(results) : results[i].err # NoError})

(***************************************************************************)
(* Mapper._add_name_data                                                   *)
(***************************************************************************)
\* "try: div = data_divs[index].strip() except: div = None"
NameDiv(data_divs, index) ==
    IF index < Len(data_divs) THEN Some(PyStrip(data_divs[index + 1])) ELSE None

\* "not div": div is None or ''
DivFalsy(div) == div = None \/ div = Some(<<>>)

\* mods.Role(text=text) with the type and authority of the roleTerm element
NewRole(text, attributes) ==
    [text |-> text, type |-> AttrOpt(attributes, "type"),
     authority |-> AttrOpt(attributes, "authority")]

\* a variant of NameElement that takes the role text from the division when
\* there is one, and the inline data of the path only otherwise
NameElementDivisionFirst(element, div, name) ==
    IF element.element = <<"mods:namePart">>
    THEN [name EXCEPT !.name_parts = Append(@,
             [text |-> div, type |-> AttrOpt(element.attributes, "type")])]
    ELSE IF element.element = <<"mods:roleTerm">>
    THEN IF ~DivFalsy(div)
         THEN [name EXCEPT !.roles = Append(@, NewRole(div, element.attributes))]
         ELSE IF element.data # None
              THEN [name EXCEPT !.roles = Append(@, NewRole(Some(element.data), element.attributes))]
              ELSE name
    ELSE name

\* one pass of "for element in section" of _add_name_data
NameElement(element, div, name) ==
    IF element.element = <<"mods:namePart">>
    THEN [name EXCEPT !.name_parts = Append(@,
             [text |-> div, type |-> AttrOpt(element.attributes, "type")])]
    ELSE IF element.element = <<"mods:roleTerm">>
    THEN IF element.data # None
         THEN [name EXCEPT !.roles = Append(@, NewRole(Some(element.data), element.attributes))]
         ELSE IF ~DivFalsy(div)
              THEN [name EXCEPT !.roles = Append(@, NewRole(div, element.attributes))]
              ELSE name
    ELSE name

RECURSIVE NameElements(_, _, _)
\* "for element in section" of _add_name_data
NameElements(elements, div, name) ==
    IF elements = <<>> THEN name
    ELSE NameElements(Tail(elements), div, NameElement(Head(elements), div, name))

RECURSIVE NameSections(_, _, _, _)
\* "for index, section in enumerate(location_sections)" of _add_name_data
NameSections(location_sections, index, data_divs, name) ==
    LET Section(section, div) ==
            IF DivFalsy(div) /\ section[1].element # <<"mods:role">>
            THEN NameSections(location_sections, index + 1, data_divs, name)
            ELSE NameSections(location_sections, index + 1, data_divs,
                              NameElements(section, div, name))
    IN  IF index >= Len(location_sections) THEN name
        ELSE Section(location_sections[index + 1], NameDiv(data_divs, index))

\* one mods.Name() of _add_name_data
NewName(base_element, location_sections, data_divs) ==
    NameSections(location_sections, 0, data_divs,
        [type |-> AttrOpt(base_element.attributes, "type"),
         name_parts |-> <<>>, roles |-> <<>>])

\* Mapper._add_name_data
AddNameData(doc, base_element, location_sections, data_vals) ==
    [doc EXCEPT !.names = @ \o [i \in 1..Len(data_vals) |->
                                   NewName(base_element, location_sections, data_vals[i])]]

(***************************************************************************)
(* Mapper._add_title_data                                                  *)
(***************************************************************************)
\* one pass of "for element in section" of _add_title_data
TitleElement(e, div, title) ==
    IF e = <<"mods:title">> THEN [title EXCEPT !.title = Some(div)]
    ELSE IF e = <<"mods:partName">> THEN [title EXCEPT !.part_name = Some(div)]
    ELSE IF e = <<"mods:partNumber">> THEN [title EXCEPT !.part_number = Some(div)]
    ELSE IF e = <<"mods:nonSort">> THEN [title EXCEPT !.non_sort = Some(div)]
    ELSE title

RECURSIVE TitleElements(_, _, _)
\* "for element in section" of _add_title_data
TitleElements(elements, div, title) ==
    IF elements = <<>> THEN title
    ELSE TitleElements(Tail(elements), div, TitleElement(Head(elements).element, div, title))

RECURSIVE TitleSections(_, _, _, _)
\* "for section, div in zip(location_sections, data_divs)" of _add_title_data
TitleSections(location_sections, data_divs, k, title) ==
    IF k > Min(Len(location_sections), Len(data_divs)) THEN title
    ELSE TitleSections(location_sections, data_divs, k + 1,
                       TitleElements(location_sections[k], data_divs[k], title))

\* one mods.TitleInfo() of _add_title_data
NewTitle(base_element, location_sections, data_divs) ==
    TitleSections(location_sections, data_divs, 1,
        [type |-> AttrOpt(base_element.attributes, "type"),
         label |-> AttrOpt(base_element.attributes, "displayLabel"),
         title |-> None, part_name |-> None, part_number |-> None, non_sort |-> None])

\* a variant of _add_title_data that also empties the names
AddTitleDataResettingNames(doc, base_element, location_sections, data_vals) ==
    [doc EXCEPT !.names = <<>>,
                !.title_info_list = @ \o [i \in 1..Len(data_vals) |->
                   NewTitle(base_element, location_sections, data_vals[i])]]

\* Mapper._add_title_data
AddTitleData(doc, base_element, location_sections, data_vals) ==
    [doc EXCEPT !.title_info_list = @ \o [i \in 1..Len(data_vals) |->
                   NewTitle(base_element, location_sections, data_vals[i])]]

(***************************************************************************)
(* Mapper._add_origin_info_data                                            *)
(***************************************************************************)
\* the elements that make a date of the origin info
DateElements ==
    {<<"mods:dateCreated">>, <<"mods:dateIssued">>, <<"mods:dateCaptured">>,
     <<"mods:dateValid">>, <<"mods:dateModified">>, <<"mods:copyrightDate">>,
     <<"mods:dateOther">>}

\* mods.DateXxx(date=text) followed by Mapper._set_date_attributes
NewDate(text, attributes) ==
    [date |-> text, encoding |-> AttrOpt(attributes, "encoding"),
     point |-> AttrOpt(attributes, "point"), key_date |-> AttrOpt(attributes, "keyDate")]

\* one pass of the section loop of _add_origin_info_data on a non-empty division
OriginSection(oi, element, text) ==
    LET Date(e, d) ==
            IF e = <<"mods:dateCreated">> THEN [oi EXCEPT !.created = Append(@, d)]
            ELSE IF e = <<"mods:dateIssued">> THEN [oi EXCEPT !.issued = Append(@, d)]
            ELSE IF e = <<"mods:dateCaptured">> THEN [oi EXCEPT !.captured = Append(@, d)]
            ELSE IF e = <<"mods:dateValid">> THEN [oi EXCEPT !.valid = Append(@, d)]
            ELSE IF e = <<"mods:dateModified">> THEN [oi EXCEPT !.modified = Append(@, d)]
            ELSE IF e = <<"mods:copyrightDate">> THEN [oi EXCEPT !.copyright = Append(@, d)]
            ELSE [oi EXCEPT !.other = Append(@, d)]
    IN  IF element.element \in DateElements
        THEN Result(Date(element.element, NewDate(text, element.attributes)), NoError)
        ELSE IF element.element = <<"mods:place">>
        THEN Result([oi EXCEPT !.places = Append(@, [place_terms |-> <<[text |-> text]>>])],
                    NoError)
        ELSE IF element.element = <<"mods:publisher">>
        THEN Result([oi EXCEPT !.publisher = Some(text)], NoError)
        ELSE Result(oi, "unhandled originInfo element")

RECURSIVE OriginSections(_, _, _, _)
\* "for index, section in enumerate(location_sections)" of _add_origin_info_data
OriginSections(oi, location_sections, index, divs) ==
    LET Then(r) == IF r.err # NoError THEN r
                   ELSE OriginSections(r.doc, location_sections, index + 1, divs)
    IN  IF index >= Len(location_sections) THEN Result(oi, NoError)
        ELSE IF PyOutOfRange(divs, index) THEN Result(oi, "IndexError")
        ELSE IF Len(divs[index + 1]) = 0
             THEN OriginSections(oi, location_sections, index + 1, divs)
        ELSE Then(OriginSection(oi, location_sections[index + 1][1], divs[index + 1]))

RECURSIVE OriginData(_, _, _)
\* "for data in data_vals" of _add_origin_info_data
OriginData(oi, location_sections, data_vals) ==
    LET Then(r) == IF r.err # NoError THEN r
                   ELSE OriginData(r.doc, location_sections, Tail(data_vals))
    IN  IF data_vals = <<>> THEN Result(oi, NoError)
        ELSE Then(OriginSections(oi, location_sections, 0, Head(data_vals)))

\* Mapper._add_origin_info_data, on a document whose origin_info block exists
AddOriginInfoData(doc, base_element, location_sections, data_vals) ==
    LET Done(r) == Result([doc EXCEPT !.origin_info = Some(r.doc)], r.err)
        Labelled(oi) ==
            IF <<"displayLabel">> \in DOMAIN base_element.attributes
            THEN [oi EXCEPT !.label = Some(base_element.attributes[<<"displayLabel">>])]
            ELSE oi
    IN  Done(OriginData(Labelled(doc.origin_info[1]), location_sections, data_vals))

(***************************************************************************)
(* add_data: physicalDescription, subject, location, relatedItem, language *)
(***************************************************************************)
RECURSIVE PhysicalSections(_, _, _, _)
\* "for index, section in enumerate(location_sections)", lines 483-489
PhysicalSections(pd, location_sections, index, data_divs) ==
    LET Set(e, v) ==
            IF e = <<"mods:extent">> THEN [pd EXCEPT !.extent = v]
            ELSE IF e = <<"mods:digitalOrigin">> THEN [pd EXCEPT !.digital_origin = v]
            ELSE [pd EXCEPT !.note = v]
        Section(e) ==
            IF e \notin {<<"mods:extent">>, <<"mods:digitalOrigin">>, <<"mods:note">>}
            THEN PhysicalSections(pd, location_sections, index + 1, data_divs)
            ELSE IF PyOutOfRange(data_divs, index) THEN Result(pd, "IndexError")
            ELSE PhysicalSections(Set(e, Some(data_divs[index + 1])), location_sections,
                                  index + 1, data_divs)
    IN  IF index >= Len(location_sections) THEN Result(pd, NoError)
        ELSE Section(location_sections[index + 1][1].element)

\* the mods.HierarchicalGeographic() of lines 531-541; every parsed element
\* has a 'data' key, so the test of line 535 always succeeds
HierarchicalGeographic(section, div) ==
    IF Len(section) < 2 THEN [err |-> "IndexError"]
    ELSE IF section[2].element = <<"mods:country">>
         THEN IF Len(section) < 3 THEN [err |-> "IndexError"]
              ELSE [err |-> NoError,
                    hg |-> [country |-> IF section[2].data = None THEN None
                                        ELSE Some(section[2].data),
                            state |-> IF section[3].element = <<"mods:state">>
                                      THEN Some(div) ELSE None]]
         ELSE [err |-> NoError, hg |-> [country |-> None, state |-> None]]

RECURSIVE SubjectSections(_, _, _, _)
\* "for section, div in zip(location_sections, data_divs)", lines 522-541
SubjectSections(location_sections, data_divs, k, subject) ==
    LET Geo(h) ==
            IF h.err # NoError THEN [err |-> h.err, entry |-> subject]
            ELSE SubjectSections(location_sections, data_divs, k + 1,
                     [subject EXCEPT !.hierarchical_geographic = Some(h.hg)])
        Section(section, div) ==
            IF section[1].element = <<"mods:topic">>
            THEN SubjectSections(location_sections, data_divs, k + 1,
                     [subject EXCEPT !.topic_list = Append(@, [text |-> div])])
            ELSE IF section[1].element = <<"mods:temporal">>
            THEN SubjectSections(location_sections, data_divs, k + 1,
                     [subject EXCEPT !.temporal_list = Append(@, [text |-> div])])
            ELSE IF section[1].element = <<"mods:geographic">>
            THEN SubjectSections(location_sections, data_divs, k + 1,
                     [subject EXCEPT !.geographic = Some(div)])
            ELSE IF section[1].element = <<"mods:hierarchicalGeographic">>
            THEN Geo(HierarchicalGeographic(section, div))
            ELSE SubjectSections(location_sections, data_divs, k + 1, subject)
    IN  IF k > Min(Len(location_sections), Len(data_divs))
        THEN [err |-> NoError, entry |-> subject]
        ELSE Section(location_sections[k], data_divs[k])

\* one mods.Subject() of lines 518-541
NewSubject(base_element, location_sections, data_divs) ==
    SubjectSections(location_sections, data_divs, 1,
        [authority |-> AttrOpt(base_element.attributes, "authority"),
         topic_list |-> <<>>, temporal_list |-> <<>>, geographic |-> None,
         hierarchical_geographic |-> None])

RECURSIVE LocationSections(_, _, _, _)
\* "for section, div in zip(location_sections, data_divs)", lines 561-580
LocationSections(location_sections, data_divs, k, loc) ==
    LET Holding(section, div) ==
            IF Len(section) < 2 THEN [err |-> "IndexError", entry |-> loc]
            ELSE IF section[2].element # <<"mods:copyInformation">>
                 THEN LocationSections(location_sections, data_divs, k + 1, loc)
            ELSE IF Len(section) < 3 THEN [err |-> "IndexError", entry |-> loc]
            ELSE IF section[3].element # <<"mods:note">>
                 THEN LocationSections(location_sections, data_divs, k + 1, loc)
            ELSE LocationSections(location_sections, data_divs, k + 1,
                     [loc EXCEPT !.holding_simple =
                         Some([copy_information |-> <<[notes |-> <<[text |-> div]>>]>>])])
        Section(section, div, text) ==
            IF section[1].element = <<"mods:url">>
            THEN LocationSections(location_sections, data_divs, k + 1,
                                  [loc EXCEPT !.url = Some(text)])
            ELSE IF section[1].element = <<"mods:physicalLocation">>
            THEN LocationSections(location_sections, data_divs, k + 1,
                                  [loc EXCEPT !.physical = Some(text)])
            ELSE IF section[1].element = <<"mods:holdingSimple">>
            THEN Holding(section, div)
            ELSE LocationSections(location_sections, data_divs, k + 1, loc)
    IN  IF k > Min(Len(location_sections), Len(data_divs))
        THEN [err |-> NoError, entry |-> loc]
        ELSE Section(location_sections[k], data_divs[k],
                     IF location_sections[k][1].data # None
                     THEN location_sections[k][1].data ELSE data_divs[k])

\* one mods.Location() of lines 559-580
NewLocation(location_sections, data_divs) ==
    LocationSections(location_sections, data_divs, 1,
        [url |-> None, physical |-> None, holding_simple |-> None])

\* one mods.RelatedItem() of lines 587-594
NewRelatedItem(base_element, location_sections, data) ==
    LET Title(item) ==
            IF Len(location_sections) = 0 THEN [err |-> "IndexError", entry |-> item]
            ELSE IF location_sections[1][1].element # <<"mods:titleInfo">>
                 THEN [err |-> NoError, entry |-> item]
            ELSE IF Len(location_sections[1]) < 2 THEN [err |-> "IndexError", entry |-> item]
            ELSE IF location_sections[1][2].element = <<"mods:title">>
                 THEN [err |-> NoError, entry |-> [item EXCEPT !.title = Some(data[1])]]
            ELSE [err |-> NoError, entry |-> item]
    IN  Title([type |-> AttrOpt(base_element.attributes, "type"),
               label |-> AttrOpt(base_element.attributes, "displayLabel"),
               title |-> None])

\* one mods.Language() of lines 453-459
NewLanguage(location_sections, data) ==
    IF Len(location_sections) = 0 THEN [err |-> "IndexError", entry |-> <<>>]
    ELSE [err |-> NoError,
          entry |-> [terms |-> <<[text |-> data[1],
                                  authority |-> AttrOpt(location_sections[1][1].attributes, "authority"),
                                  type |-> AttrOpt(location_sections[1][1].attributes, "type")]>>]]

(***************************************************************************)
(* Mapper.add_data                                                         *)
(***************************************************************************)
\* what a call leaves behind: the document, _cleared_fields and how it ended
\* ("" returned, "NoReturn" for the split loop that has no exit, otherwise
\* the exception raised)
Outcome(doc, cleared, err) == [doc |-> doc, cleared |-> cleared, err |-> err]

\* a variant of ClearOnce that forgets _cleared_fields: the field is reset on
\* every call
ClearAlways(doc, cleared, key, field, empty) == [doc EXCEPT ![field] = empty]

\* a variant of ClearOnce that resets a field only while it holds nothing
ClearOnlyEmpty(doc, cleared, key, field, empty) ==
    IF key \in cleared \/ doc[field] \notin {<<>>, None} THEN doc
    ELSE [doc EXCEPT ![field] = empty]

\* "if not self._cleared_fields.get(key): <reset the field>; _cleared_fields[key] = True"
ClearOnce(doc, cleared, key, field, empty) ==
    IF key \in cleared THEN doc ELSE [doc EXCEPT ![field] = empty]

\* "for data in data_vals: collection.append(Entry(text=data[0], ...))"
TextEntries(base_element, data_vals, withType) ==
    [i \in 1..Len(data_vals) |->
        IF withType
        THEN [text |-> data_vals[i][1],
              type |-> AttrOpt(base_element.attributes, "type"),
              label |-> AttrOpt(base_element.attributes, "displayLabel")]
        ELSE [text |-> data_vals[i][1],
              authority |-> AttrOpt(base_element.attributes, "authority")]]

\* the branches of add_data that build one entry per group with a constructor
\* that may raise: language, subject, location, relatedItem
GroupBranch(doc, cleared, key, field, results) ==
    LET Done(d, r) == Outcome([d EXCEPT ![field] = r.items], cleared \cup {key}, r.err)
        Cleared(d) == Done(d, AppendUntilError(d[field], results))
    IN  Cleared(ClearOnce(doc, cleared, key, field, <<>>))

\* the typeOfResource branch, lines 490-494
ResourceBranch(doc, cleared, data_vals) ==
    LET Cleared(d) ==
            IF data_vals = <<>> THEN Outcome(d, cleared \cup {"typeOfResource"}, "IndexError")
            ELSE Outcome([d EXCEPT !.resource_type = Some(data_vals[1][1])],
                         cleared \cup {"typeOfResource"}, NoError)
    IN  Cleared(ClearOnce(doc, cleared, "typeOfResource", "resource_type", None))

\* the abstract branch, lines 495-501
AbstractBranch(doc, cleared, data_vals) ==
    LET Cleared(d) ==
            IF data_vals = <<>> THEN Outcome(d, cleared \cup {"abstract"}, "IndexError")
            ELSE Outcome([d EXCEPT !.abstract = Some([text |-> Some(data_vals[1][1])])],
                         cleared \cup {"abstract"}, NoError)
    IN  Cleared(ClearOnce(doc, cleared, "abstract", "abstract", Some([text |-> None])))

\* the physicalDescription branch, lines 476-489
PhysicalBranch(doc, cleared, location_sections, data_vals) ==
    LET Done(d, r) == Outcome([d EXCEPT !.physical_description = Some(r.doc)],
                              cleared \cup {"physical_description"}, r.err)
        Cleared(d) ==
            IF data_vals = <<>>
            THEN Outcome(d, cleared \cup {"physical_description"}, "IndexError")
            ELSE Done(d, PhysicalSections(d.physical_description[1], location_sections, 0,
                                          data_vals[1]))
    IN  Cleared(ClearOnce(doc, cleared, "physical_description", "physical_description",
                          Some(NewPhysicalDescription)))

\* the originInfo branch, lines 470-475
OriginBranch(doc, cleared, base_element, location_sections, data_vals) ==
    LET Done(r) == Outcome(r.doc, cleared \cup {"origin_info"}, r.err)
    IN  Done(AddOriginInfoData(
                 ClearOnce(doc, cleared, "origin_info", "origin_info", Some(NewOriginInfo)),
                 base_element, location_sections, data_vals))

\* a variant of the namePart branch that clears the names first, as the name
\* branch does
NamePartBranchClearing(doc, cleared, attributes, data_vals) ==
    IF data_vals = <<>> THEN Outcome(doc, cleared, "IndexError")
    ELSE
    Outcome([doc EXCEPT !.names = << [type |-> None, roles |-> <<>>,
                 name_parts |-> << [text |-> Some(data_vals[1][1]),
                                    type |-> AttrOpt(attributes, "type")] >>] >>],
            cleared \cup {"names"}, NoError)

\* the namePart branch, lines 436-442: a part for the last name of the document
NamePartBranch(doc, cleared, attributes, data_vals) ==
    IF doc.names = <<>> \/ data_vals = <<>> THEN Outcome(doc, cleared, "IndexError")
    ELSE Outcome([doc EXCEPT !.names[Len(doc.names)].name_parts = Append(@,
                     [text |-> Some(data_vals[1][1]), type |-> AttrOpt(attributes, "type")])],
                 cleared, NoError)

\* the branches of add_data, lines 428-598, after the path and value are split
Dispatch(doc, cleared, base_element, location_sections, data_vals) ==
    CASE base_element.element = <<"mods:mods">> ->
            IF <<"ID">> \in DOMAIN base_element.attributes
            THEN IF data_vals = <<>> THEN Outcome(doc, cleared, "IndexError")
                 ELSE Outcome([doc EXCEPT !.id = Some(data_vals[1][1])], cleared, NoError)
            ELSE Outcome(doc, cleared, NoError)
      [] base_element.element = <<"mods:name">> ->
            Outcome(AddNameData(ClearOnce(doc, cleared, "names", "names", <<>>),
                                base_element, location_sections, data_vals),
                    cleared \cup {"names"}, NoError)
      [] base_element.element = <<"mods:namePart">> ->
            NamePartBranch(doc, cleared, base_element.attributes, data_vals)
      [] base_element.element = <<"mods:titleInfo">> ->
            Outcome(AddTitleData(
                        ClearOnce(doc, cleared, "title_info_list", "title_info_list", <<>>),
                        base_element, location_sections, data_vals),
                    cleared \cup {"title_info_list"}, NoError)
      [] base_element.element = <<"mods:language">> ->
            GroupBranch(doc, cleared, "languages", "languages",
                [i \in 1..Len(data_vals) |-> NewLanguage(location_sections, data_vals[i])])
      [] base_element.element = <<"mods:genre">> ->
            GroupBranch(doc, cleared, "genres", "genres",
                [i \in 1..Len(data_vals) |->
                    [err |-> NoError, entry |-> TextEntries(base_element, data_vals, FALSE)[i]]])
      [] base_element.element = <<"mods:originInfo">> ->
            OriginBranch(doc, cleared, base_element, location_sections, data_vals)
      [] base_element.element = <<"mods:physicalDescription">> ->
            PhysicalBranch(doc, cleared, location_sections, data_vals)
      [] base_element.element = <<"mods:typeOfResource">> ->
            ResourceBranch(doc, cleared, data_vals)
      [] base_element.element = <<"mods:abstract">> ->
            AbstractBranch(doc, cleared, data_vals)
      [] base_element.element = <<"mods:note">> ->
            GroupBranch(doc, cleared, "notes", "notes",
                [i \in 1..Len(data_vals) |->
                    [err |-> NoError, entry |-> TextEntries(base_element, data_vals, TRUE)[i]]])
      [] base_element.element = <<"mods:subject">> ->
            GroupBranch(doc, cleared, "subjects", "subjects",
                [i \in 1..Len(data_vals) |->
                    NewSubject(base_element, location_sections, data_vals[i])])
      [] base_element.element = <<"mods:identifier">> ->
            GroupBranch(doc, cleared, "identifiers", "identifiers",
                [i \in 1..Len(data_vals) |->
                    [err |-> NoError, entry |-> TextEntries(base_element, data_vals, TRUE)[i]]])
      [] base_element.element = <<"mods:location">> ->
            GroupBranch(doc, cleared, "locations", "locations",
                [i \in 1..Len(data_vals) |-> NewLocation(location_sections, data_vals[i])])
      [] base_element.element = <<"mods:relatedItem">> ->
            GroupBranch(doc, cleared, "related", "related_items",
                [i \in 1..Len(data_vals) |->
                    NewRelatedItem(base_element, location_sections, data_vals[i])])
      [] OTHER -> Outcome(doc, cleared, "element not handled!")

\* Mapper.add_data(mods_loc, data) on a mapper whose document is doc
AddData(doc, cleared, mods_loc, data) ==
    LET Split(loc, dv) ==
            IF ~dv.returns THEN Outcome(doc, cleared, "NoReturn")
            ELSE Dispatch(doc, cleared, loc.base_element, loc.sections, dv.vals)
        Parsed(loc) ==
            IF ~loc.ok THEN Outcome(doc, cleared, loc.err)
            ELSE Split(loc, DataVals(data, loc.has_sectioned_data))
    IN  Parsed(LocationParser(mods_loc))

(***************************************************************************)
(* Mapping paths and cell values, as symbol sequences                      *)
(***************************************************************************)
\* <name>
Tag(name) == <<"<", name, ">">>

\* <name attr="val">
TagA(name, attr, val) == <<"<", name, " ", attr, "=", "\"", val, "\"", ">">>

\* the section divider of a path and of a value
Hash == <<"#">>

\* the repeat separator of a value, written ' || '
Bar == <<" ", "|", "|", " ">>

\* one mapping path for every branch of add_data
PathMods == TagA("mods:mods", "ID", "x")

PathName == TagA("mods:name", "type", "personal") \o Tag("mods:namePart")

PathNamePart == TagA("mods:namePart", "type", "date")

PathTitle == Tag("mods:titleInfo") \o Tag("mods:title") \o Hash \o Tag("mods:partName")

PathLanguage == Tag("mods:language") \o TagA("mods:languageTerm", "type", "code")

PathGenre == TagA("mods:genre", "authority", "aat")

PathOrigin == Tag("mods:originInfo") \o Tag("mods:dateCreated") \o Hash \o Tag("mods:publisher")

PathPhysical == Tag("mods:physicalDescription") \o Tag("mods:extent")

PathResource == Tag("mods:typeOfResource")

PathAbstract == Tag("mods:abstract")

PathNote == TagA("mods:note", "displayLabel", "label")

PathSubject == Tag("mods:subject") \o Tag("mods:topic")

PathIdentifier == TagA("mods:identifier", "type", "local")

PathLocation == Tag("mods:location") \o Tag("mods:url")

PathRelated == Tag("mods:relatedItem") \o Tag("mods:titleInfo") \o Tag("mods:title")

\* the calls that built the parent document (as tests.py lines 320-323 build
\* m1), with words no later call of the model uses
ParentCalls ==
    << <<PathMods, <<"p0">> >>,
       <<PathName, <<"p1">> \o Bar \o <<"p2">> >>,
       <<PathTitle, <<"p1">> \o Hash \o <<"p2">> >>,
       <<PathLanguage, <<"p1">> >>,
       <<PathGenre, <<"p1">> >>,
       <<PathOrigin, <<"p1">> \o Hash \o <<"p2">> >>,
       <<PathPhysical, <<"p1">> >>,
       <<PathResource, <<"p1">> >>,
       <<PathAbstract, <<"p1">> >>,
       <<PathNote, <<"p1">> >>,
       <<PathSubject, <<"p1">> \o Bar \o <<"p2">> >>,
       <<PathIdentifier, <<"p1">> >>,
       <<PathLocation, <<"p1">> >>,
       <<PathRelated, <<"p1">> >> >>

RECURSIVE Build(_, _, _)
\* "for field in record.field_data(): mapper.add_data(...)": the calls in
\* order, up to the first one that does not return
Build(doc, cleared, calls) ==
    LET Then(o) == IF o.err # NoError THEN o ELSE Build(o.doc, o.cleared, Tail(calls))
    IN  IF calls = <<>> THEN Outcome(doc, cleared, NoError)
        ELSE Then(AddData(doc, cleared, Head(calls)[1], Head(calls)[2]))

RECURSIVE CallsMade(_, _, _)
\* the add_data calls that loop makes, in the order it makes them: the loop
\* ends with the first call that does not return
CallsMade(doc, cleared, calls) ==
    LET Then(o) == IF o.err # NoError THEN <<>> ELSE CallsMade(o.doc, o.cleared, Tail(calls))
    IN  IF calls = <<>> THEN <<>>
        ELSE <<Head(calls)>> \o Then(AddData(doc, cleared, Head(calls)[1], Head(calls)[2]))

\* the document a parent holds: m1.get_mods() of the tests, the content of a
\* parent file of process()
ParentDoc == Build(MakeMods, {}, ParentCalls).doc

(***************************************************************************)
(* State.                                                                  *)
(*  docs      the heap of Mods objects: "P" is the document the parent's   *)
(*            owner holds, "M" the one a Mapper made or process() loaded   *)
(*  m_mods, m_parent, m_cleared                                            *)
(*            the mapper's _mods (a reference into docs, "none" while no   *)
(*            mapper is bound), _parent_mods and _cleared_fields           *)
(*  raw, loc  the string given to LocationParser and what it made of it    *)
(*  records, copy_parent_to_children, files, index, raised                 *)
(*            process(): the records of the data handler, the flag, the    *)
(*            files of MODS_DIR, the loop position, the exception raised   *)
(*  feed      the calls a run of the mapper draws from and how many        *)
(*  last, ncalls, parent0, targeted, shadow                                *)
(*            the record of the run: the last add_data call and how it     *)
(*            ended, the number of calls, the content of the mapper's      *)
(*            document when the mapper was constructed, the document       *)
(*            fields whose branch a call has entered, and the state of a   *)
(*            Mapper() without parent that is given the same calls         *)
(*  entry_data, data_divs                                                  *)
(*            the string given to _get_data_divs and what it returned      *)
(*  sheet, got_records                                                     *)
(*            the data handler: its first row, control row, data rows      *)
(*            and obj_type, and whether get_mods_records() has returned    *)
(*  called    process(): for each record it has written, the add_data      *)
(*            calls it made, in order                                      *)
(*  strDate, forceDates, text_date                                         *)
(*            the arguments given to process_text_date and what the call   *)
(*            did                                                          *)
(***************************************************************************)
VARIABLES docs, m_mods, m_parent, m_cleared, raw, loc, records, copy_parent_to_children,
          files, index, raised, feed, last, ncalls, parent0, targeted, shadow,
          entry_data, data_divs, sheet, got_records, called, strDate, forceDates,
          text_date

vars == <<docs, m_mods, m_parent, m_cleared, raw, loc, records, copy_parent_to_children,
          files, index, raised, feed, last, ncalls, parent0, targeted, shadow,
          entry_data, data_divs, sheet, got_records, called, strDate, forceDates,
          text_date>>

mapperVars == <<docs, m_mods, m_parent, m_cleared, last, ncalls, parent0, targeted, shadow>>

parserVars == <<raw, loc>>

processVars == <<records, copy_parent_to_children, files, index, raised, called>>

divsVars == <<entry_data, data_divs>>

handlerVars == <<sheet, got_records>>

dateVars == <<strDate, forceDates, text_date>>

\* the number of add_data calls on one mapper in the merge runs
MaxCalls == 2

\* the number of add_data calls on one mapper in the single-call runs
MaxSingleCalls == 1

\* the number of records process() is given
MaxRecords == 2

NoCall == [path |-> <<>>, data |-> <<>>, err |-> "no call"]

NotParsed == [ok |-> FALSE, err |-> "not parsed"]

NoFiles == [f \in {} |-> MakeMods]

NotSplit == [state |-> "not called"]

\* no process_text_date call: no argument, no outcome
NoDate == [type |-> "no argument", value |-> <<>>]

NotCalled == [outcome |-> "not called", value |-> NoDate]

NoSheet == [first_row |-> <<>>, ctrl_row |-> <<>>, rows |-> <<>>, obj_type |-> "parent"]

\* the document field the branch of add_data for a base element writes
FieldOf(element) ==
    CASE element = <<"mods:mods">> -> "id"
      [] element \in {<<"mods:name">>, <<"mods:namePart">>} -> "names"
      [] element = <<"mods:titleInfo">> -> "title_info_list"
      [] element = <<"mods:language">> -> "languages"
      [] element = <<"mods:genre">> -> "genres"
      [] element = <<"mods:originInfo">> -> "origin_info"
      [] element = <<"mods:physicalDescription">> -> "physical_description"
      [] element = <<"mods:typeOfResource">> -> "resource_type"
      [] element = <<"mods:abstract">> -> "abstract"
      [] element = <<"mods:note">> -> "notes"
      [] element = <<"mods:subject">> -> "subjects"
      [] element = <<"mods:identifier">> -> "identifiers"
      [] element = <<"mods:location">> -> "locations"
      [] element = <<"mods:relatedItem">> -> "related_items"
      [] OTHER -> "none"

\* the fields a call targets: none when its path does not parse, the value
\* split does not return, or the base element is not handled
Targets(mods_loc, data) ==
    LET Parsed(p) ==
            IF ~p.ok THEN {}
            ELSE IF ~DataVals(data, p.has_sectioned_data).returns THEN {}
            ELSE {FieldOf(p.base_element.element)} \ {"none"}
    IN  Parsed(LocationParser(mods_loc))

MapperIdle ==
    /\ docs = [r \in {"P"} |-> ParentDoc]
    /\ m_mods = "none"
    /\ m_parent = "None"
    /\ m_cleared = {}
    /\ last = NoCall
    /\ ncalls = 0
    /\ parent0 = MakeMods
    /\ targeted = {}
    /\ shadow = [doc |-> MakeMods, cleared |-> {}]

ParserIdle == raw = <<>> /\ loc = NotParsed

ProcessIdle ==
    /\ records = <<>>
    /\ copy_parent_to_children = FALSE
    /\ files = NoFiles
    /\ index = 1
    /\ raised = NoError
    /\ called = <<>>

DivsIdle == entry_data = <<>> /\ data_divs = NotSplit

HandlerIdle == sheet = NoSheet /\ got_records = FALSE

DateIdle == strDate = NoDate /\ forceDates = FALSE /\ text_date = NotCalled

\* a program that will call add_data on one mapper, with calls drawn from calls
InitMapper(calls, max) ==
    /\ MapperIdle
    /\ ParserIdle
    /\ ProcessIdle
    /\ DivsIdle
    /\ HandlerIdle
    /\ DateIdle
    /\ feed = [calls |-> calls, max |-> max]

\* Mapper.__init__(parent_mods): the mapper's document IS parent_mods when one
\* is given, else a new empty document
NewMapper(parent_mods) ==
    /\ m_mods = "none"
    /\ m_parent' = parent_mods
    /\ m_cleared' = {}
    /\ IF parent_mods # "None"
       THEN /\ m_mods' = parent_mods
            /\ docs' = docs
       ELSE /\ m_mods' = "M"
            /\ docs' = [r \in DOMAIN docs \cup {"M"} |-> IF r = "M" THEN MakeMods ELSE docs[r]]
    /\ parent0' = docs'[m_mods']
    /\ UNCHANGED <<last, ncalls, targeted, shadow, feed>>
    /\ UNCHANGED <<parserVars, processVars, divsVars, handlerVars, dateVars>>

\* the effect of one add_data call on the mapper and on the mapper without parent
AddDataEffect(mods_loc, data, o, sh) ==
    /\ docs' = [docs EXCEPT ![m_mods] = o.doc]
    /\ m_cleared' = o.cleared
    /\ last' = [path |-> mods_loc, data |-> data, err |-> o.err]
    /\ shadow' = [doc |-> sh.doc, cleared |-> sh.cleared]

\* mapper.add_data(mods_loc, data)
CallAddData(mods_loc, data) ==
    /\ m_mods # "none"
    /\ last.err # "NoReturn"
    /\ ncalls < feed.max
    /\ AddDataEffect(mods_loc, data,
                     AddData(docs[m_mods], m_cleared, mods_loc, data),
                     AddData(shadow.doc, shadow.cleared, mods_loc, data))
    /\ ncalls' = ncalls + 1
    /\ targeted' = targeted \cup Targets(mods_loc, data)
    /\ UNCHANGED <<m_mods, m_parent, parent0, feed>>
    /\ UNCHANGED <<parserVars, processVars, divsVars, handlerVars, dateVars>>

NextMapper ==
    \/ \E parent_mods \in {"None", "P"} : NewMapper(parent_mods)
    \/ \E call \in feed.calls : CallAddData(call[1], call[2])

\* the merge runs: every branch of add_data, on a mapper with or without parent
MergePaths ==
    {PathMods, PathName, PathNamePart, PathTitle, PathLanguage, PathGenre, PathOrigin,
     PathPhysical, PathResource, PathAbstract, PathNote, PathSubject, PathIdentifier,
     PathLocation, PathRelated}

MergeValues == { <<"a">>, <<"a">> \o Bar \o <<"b">>, <<"a">> \o Bar, <<" ">> }

Init == InitMapper(MergePaths \X MergeValues, MaxCalls)

Next == NextMapper

Spec == Init /\ [][Next]_vars

(***************************************************************************)
(* The single-call runs: one add_data call on a mapper with or without     *)
(* parent, for the paths the merge runs leave out                          *)
(***************************************************************************)
\* paths whose base element add_data has no branch for, lines 596-598
UnhandledPaths ==
    { Tag("mods:foo"),
      TagA("mods:foo", "type", "x") \o Tag("mods:a"),
      Tag("mods:foo") \o Tag("mods:a") \o Hash \o Tag("mods:b"),
      Tag("mods:titleinfo") \o Tag("mods:title") \o Hash \o Tag("mods:partName"),
      Tag("name") \o Tag("mods:namePart") }

UnhandledValues ==
    { <<"a">>, <<"a">> \o Hash \o <<"b">>, <<"a">> \o Bar \o <<"b">>, <<" ">>,
      <<"a", "\\", "#", "b">>, <<"#", "\\">>, <<"#", "a", "\\">>,
      <<"a">> \o Bar \o <<"#", "\\">> }

\* originInfo, subject and location paths with a section element their branch
\* does not know, alone or next to one it knows
UnknownSectionPaths ==
    { Tag("mods:originInfo") \o Tag("mods:foo"),
      Tag("mods:originInfo") \o Tag("mods:dateCreated") \o Hash \o Tag("mods:foo"),
      Tag("mods:originInfo") \o Tag("mods:foo") \o Hash \o Tag("mods:publisher"),
      Tag("mods:subject") \o Tag("mods:foo"),
      Tag("mods:subject") \o Tag("mods:topic") \o Hash \o Tag("mods:foo"),
      Tag("mods:subject") \o Tag("mods:foo") \o Hash \o Tag("mods:topic"),
      Tag("mods:location") \o Tag("mods:foo"),
      Tag("mods:location") \o Tag("mods:url") \o Hash \o Tag("mods:foo"),
      Tag("mods:location") \o Tag("mods:foo") \o Hash \o Tag("mods:url") }

\* values whose every entry is non-empty: both divisions, a second one that is
\* empty, a first one that is empty, no divider
SectionValues ==
    { <<"a">> \o Hash \o <<"b">>, <<"a">> \o Hash, Hash \o <<"b">>, <<"a">>,
      <<"a">> \o Hash \o <<"b">> \o Bar \o <<"c">> \o Hash \o <<"d">> }

\* the name paths of tests.py lines 341-344: the role text from the division,
\* and the role text inline in the path
PathNameRole ==
    TagA("mods:name", "type", "personal") \o Tag("mods:namePart") \o Hash
        \o Tag("mods:role") \o Tag("mods:roleTerm")

PathNameInlineRole ==
    TagA("mods:name", "type", "personal") \o Tag("mods:namePart") \o Hash
        \o Tag("mods:role") \o TagA("mods:roleTerm", "type", "text") \o <<"winner">>

NamePaths == {PathNameRole, PathNameInlineRole}

\* 'Smith#creator || Jones', 'Bob', '#creator', 'Smith#', 'Smith # creator',
\* 'Smith || #creator'
NameValues ==
    { <<"Smith", "#", "creator">> \o Bar \o <<"Jones">>,
      <<"Bob">>,
      <<"#", "creator">>,
      <<"Smith", "#">>,
      <<"Smith", " ", "#", " ", "creator">>,
      <<"Smith">> \o Bar \o <<"#", "creator">> }

\* a path of two sections for a base element whose branch reads no section
TwoSections(base) == base \o Tag("mods:a") \o Hash \o Tag("mods:b")

PathPhysicalTwo ==
    Tag("mods:physicalDescription") \o Tag("mods:extent") \o Hash \o Tag("mods:digitalOrigin")

PathSubjectTwo == Tag("mods:subject") \o Tag("mods:topic") \o Hash \o Tag("mods:geographic")

PathLocationTwo == Tag("mods:location") \o Tag("mods:url") \o Hash \o Tag("mods:physicalLocation")

PathLanguageTwo == PathLanguage \o Hash \o Tag("mods:languageTerm")

PathRelatedTwo == PathRelated \o Hash \o Tag("mods:b")

PathNameTwo == PathName \o Hash \o TagA("mods:namePart", "type", "date")

\* a path of two sections for every branch of add_data that makes or fills
\* an entry of its own (a bare mods:namePart needs a name made before it)
SectionedPaths ==
    { TwoSections(PathMods), PathNameTwo, PathTitle,
      PathLanguageTwo, TwoSections(PathGenre), PathOrigin, PathPhysicalTwo,
      TwoSections(PathResource), TwoSections(PathAbstract), TwoSections(PathNote),
      PathSubjectTwo, TwoSections(PathIdentifier), PathLocationTwo, PathRelatedTwo }

\* values whose entries have one division: 'a' and 'a || b'
ShortValues == { <<"a">>, <<"a">> \o Bar \o <<"b">> }

\* subject paths with a geographic section: the text from the division, and
\* the text inline in the path
PathGeographic == Tag("mods:subject") \o Tag("mods:geographic")

PathGeographicInline == Tag("mods:subject") \o Tag("mods:geographic") \o <<"Rome">>

GeographicPaths == {PathGeographic, PathGeographicInline}

\* bare mods:namePart paths: with a type, without one, and with sections
PathNamePartPlain == Tag("mods:namePart")

NamePartPaths == {PathNamePart, PathNamePartPlain, TwoSections(PathNamePart)}

\* 'a', 'a || b', 'a#b', 'a#b || c'
NamePartValues ==
    { <<"a">>, <<"a">> \o Bar \o <<"b">>, <<"a">> \o Hash \o <<"b">>,
      <<"a">> \o Hash \o <<"b">> \o Bar \o <<"c">> }

\* relatedItem paths: no section, a titleInfo with a title, a titleInfo
\* alone, a titleInfo with another element, another first element
PathRelatedBare == TagA("mods:relatedItem", "type", "host")

PathRelatedTitled == PathRelatedBare \o Tag("mods:titleInfo") \o Tag("mods:title")

PathRelatedTitleInfo == PathRelatedBare \o Tag("mods:titleInfo")

PathRelatedPartName == PathRelatedBare \o Tag("mods:titleInfo") \o Tag("mods:partName")

PathRelatedIdentifier == PathRelatedBare \o Tag("mods:identifier")

RelatedPaths ==
    {PathRelatedBare, PathRelatedTitled, PathRelatedTitleInfo, PathRelatedPartName,
     PathRelatedIdentifier, PathRelatedTwo}

\* subject paths with a hierarchicalGeographic section: alone, with a
\* country, with a country that has inline text, with a country followed by
\* a state, and the path of tests.py line 340
PathHierarchicalBare == Tag("mods:subject") \o Tag("mods:hierarchicalGeographic")

PathHierarchicalCountry == PathHierarchicalBare \o Tag("mods:country")

PathHierarchicalCountryInline == PathHierarchicalCountry \o <<"US">>

PathHierarchicalCountryState == PathHierarchicalCountry \o Tag("mods:state")

PathHierarchical ==
    PathHierarchicalCountry \o <<"United", " ", "States">>
        \o <<"<", "/", "mods:country", ">">> \o Tag("mods:state")

HierarchicalPaths ==
    {PathHierarchicalBare, PathHierarchicalCountry, PathHierarchicalCountryInline,
     PathHierarchicalCountryState, PathHierarchical}

\* paths that do not parse: no '<' at the start, and a tag that is not closed
MalformedPaths == { <<"mods:title">>, <<"<", "mods:title">> }

\* values with no entry left after the split on '||' and the trim: ' ' and
\* ' || '
BlankValues == { <<" ">>, Bar }

SingleCalls ==
    (UnhandledPaths \X UnhandledValues) \cup (UnknownSectionPaths \X SectionValues)
        \cup (NamePaths \X NameValues)
        \cup (SectionedPaths \X ShortValues)
        \cup (GeographicPaths \X ShortValues)
        \cup (NamePartPaths \X NamePartValues)
        \cup (RelatedPaths \X ShortValues)
        \cup (HierarchicalPaths \X ShortValues)
        \cup (MalformedPaths \X ShortValues)
        \cup (MergePaths \X BlankValues)

InitCalls == InitMapper(SingleCalls, MaxSingleCalls)

SpecCalls == InitCalls /\ [][NextMapper]_vars

(***************************************************************************)
(* The parser runs: LocationParser on one string                           *)
(***************************************************************************)
\* ' attr="val"'
Attr(attr, val) == <<" ", attr, "=", "\"", val, "\"">>

\* <name attributes>
TagWith(name, attributes) == <<"<", name>> \o attributes \o <<">">>

\* well-formed paths: a base tag with up to three attributes, followed by
\* nothing, a section, two sections, or a section with inline data
WellFormedPaths ==
    { base \o rest :
        base \in { Tag("a"), TagWith("a", Attr("t", "x")),
                   TagWith("a", Attr("t", "x") \o Attr("u", "y")),
                   TagWith("a", Attr("t", "x") \o Attr("u", "y") \o Attr("v", "z")) },
        rest \in { <<>>, Tag("b"),
                   Tag("b") \o Hash \o TagWith("c", Attr("t", "x") \o Attr("u", "y") \o Attr("v", "z")),
                   Tag("b") \o <<"w", "<", "/", "b", ">">> } }

\* paths with an empty piece after the base element: a trailing '#', a
\* leading '#', and '##'
EmptyPiecePaths ==
    { Tag("a") \o Tag("b") \o Hash,
      Tag("a") \o Hash \o Tag("b"),
      Tag("a") \o Tag("b") \o Hash \o Hash \o Tag("c") }

\* paths whose first tag has no name, or a name that does not begin with a
\* letter: '<>', '< type="x">', '<><b>', '<1a>' and '</a>'
UnnamedPaths ==
    { <<"<", ">">>,
      <<"<">> \o Attr("type", "x") \o <<">">>,
      <<"<", ">">> \o Tag("b"),
      Tag("1a"),
      <<"<", "/", "a", ">">> }

\* '</name>'
Closing(name) == <<"<", "/", name, ">">>

\* well-formed paths with inline text and closing tags: the paths of
\* tests.py lines 40 and 63, a closing tag right after its opening tag, and
\* text after a closing tag and at the end of a piece
InlinePaths ==
    { TagWith("mods:name", Attr("type", "personal")) \o Tag("mods:namePart") \o Hash
          \o Tag("mods:role") \o TagWith("mods:roleTerm", Attr("type", "text")) \o <<"winner">>,
      Tag("mods:subject") \o Tag("mods:hierarchicalGeographic") \o Tag("mods:country")
          \o <<"United", " ", "States">> \o Closing("mods:country") \o Tag("mods:state"),
      Tag("a") \o Tag("b") \o Closing("b") \o Tag("c"),
      Tag("a") \o Tag("b") \o <<"w">> \o Closing("b") \o <<"v">>
          \o TagWith("c", Attr("t", "x")) \o <<"u">> \o Hash \o Tag("d") \o <<"y", " ">> }

\* s without its i-th symbol
DropAt(s, i) == PyTo(s, i - 1) \o PyFrom(s, i)

\* the places of the delimiters '<', '>' and '"' in s
Delimiters(s) == {i \in 1..Len(s) : s[i] \in {"<", ">", "\""}}

\* the well-formed paths, each of them with one delimiter left out, the
\* paths with an empty piece, the paths with an unnamed first tag, the
\* paths with inline text, the strings of tests.py lines 78-86, and strings
\* with nothing in them
ParsePaths ==
    WellFormedPaths
        \cup EmptyPiecePaths
        \cup UnnamedPaths
        \cup InlinePaths
        \cup UNION { {DropAt(path, i) : i \in Delimiters(path)} : path \in WellFormedPaths }
        \cup { <<>>, <<" ">>, <<"asdf1234">>, <<" ">> \o Tag("a"), <<"x">> \o Tag("a") }

InitParse ==
    /\ raw \in ParsePaths
    /\ loc = NotParsed
    /\ MapperIdle
    /\ ProcessIdle
    /\ DivsIdle
    /\ HandlerIdle
    /\ DateIdle
    /\ feed = [calls |-> {}, max |-> 0]

\* loc = LocationParser(raw)
Parse ==
    /\ loc = NotParsed
    /\ loc' = LocationParser(raw)
    /\ UNCHANGED <<raw, feed>>
    /\ UNCHANGED <<mapperVars, processVars, divsVars, handlerVars, dateVars>>

NextParse == Parse

SpecParse == InitParse /\ [][NextParse]_vars

(***************************************************************************)
(* The division runs: a path is parsed and one entry of a value is split   *)
(* into its divisions, as line 426 of add_data does for every entry.       *)
(***************************************************************************)
\* the longest entry of the division runs, in symbols
MaxEntryLen == 4

\* the symbols of an entry: text, the divider and the escape
EntrySymbols == {"a", "#", "\\"}

\* the entries: every string of up to MaxEntryLen symbols
Entries == UNION { [1..n -> EntrySymbols] : n \in 0..MaxEntryLen }

\* the paths of the division runs
DivPaths == WellFormedPaths \cup EmptyPiecePaths

\* what _get_data_divs made of the entry: the list it returned, or no return
DivsResult(r) ==
    IF r.returns THEN [state |-> "returned", divs |-> r.divs]
    ELSE [state |-> "no return"]

InitDivs ==
    /\ raw \in DivPaths
    /\ loc = NotParsed
    /\ entry_data \in Entries
    /\ data_divs = NotSplit
    /\ MapperIdle
    /\ ProcessIdle
    /\ HandlerIdle
    /\ DateIdle
    /\ feed = [calls |-> {}, max |-> 0]

\* self._get_data_divs(data, loc.has_sectioned_data), line 426
CallGetDataDivs ==
    /\ loc # NotParsed
    /\ loc.ok
    /\ data_divs = NotSplit
    /\ data_divs' = DivsResult(GetDataDivs(entry_data, loc.has_sectioned_data))
    /\ UNCHANGED <<entry_data, feed>>
    /\ UNCHANGED <<mapperVars, parserVars, processVars, handlerVars, dateVars>>

NextDivs == Parse \/ CallGetDataDivs

SpecDivs == InitDivs /\ [][NextDivs]_vars

(***************************************************************************)
(* The process() runs: the loop of process() over the records of a data    *)
(* handler.  A file of MODS_DIR is the document it was serialized from,    *)
(* or that load_xmlobject_from_file makes of it; no record of these runs   *)
(* reads a file that the run wrote.                                        *)
(***************************************************************************)
\* ModsRecord.__init__: '%s.mods' % id and '%s.mods' % mods_id
FileName(id) == <<id, ".mods">>

\* field assignments whose second add_data call fails: the base element of
\* its path is not handled
FailingFieldData == { << <<PathSubject, <<"a">> >>, <<Tag("mods:foo"), <<"a">> >> >> }

\* the field assignments of a record: none, a title, a subject, a name with a
\* date part, and those with a call that fails
FieldData ==
    { <<>>,
      << <<PathTitle, <<"a">> \o Hash \o <<"b">> >> >>,
      << <<PathSubject, <<"a">> \o Bar \o <<"b">> >> >>,
      << <<PathName, <<"a">> >>, <<PathNamePart, <<"b">> >> >> }
        \cup FailingFieldData

\* the records: children of the parents r1 and r2
Records ==
    [id : {"r1", "r2"}, mods_id : {"r1_1", "r2_1"}, field_data : FieldData]

\* the sequences of n records
RecordLists(n) == [1..n -> Records]

\* MODS_DIR before the run: the file of parent r1, and none for parent r2
ParentFiles == [f \in {FileName("r1")} |-> ParentDoc]

\* process() before its loop: no mapper yet, nothing written
ProcessStart ==
    /\ index = 1
    /\ raised = NoError
    /\ docs = [r \in {"M"} |-> MakeMods]
    /\ m_mods = "none"
    /\ m_parent = "None"
    /\ m_cleared = {}
    /\ last = NoCall
    /\ ncalls = 0
    /\ parent0 = MakeMods
    /\ targeted = {}
    /\ shadow = [doc |-> MakeMods, cleared |-> {}]
    /\ called = <<>>
    /\ ParserIdle
    /\ DivsIdle
    /\ feed = [calls |-> {}, max |-> 0]

InitProcess ==
    /\ records \in RecordLists(MaxRecords)
    /\ copy_parent_to_children \in BOOLEAN
    /\ files = ParentFiles
    /\ ProcessStart
    /\ HandlerIdle
    /\ DateIdle

\* "raise": the loop ends, nothing is written
Raise(err) ==
    /\ raised' = err
    /\ UNCHANGED <<docs, m_mods, m_parent, m_cleared, parent0, files, index, called>>

\* a variant of lines 889-895 that writes the file of the record whether or
\* not its add_data calls returned
WriteRecordAlways(record, parent, start, o, calls) ==
    /\ m_mods' = "M"
    /\ m_parent' = parent
    /\ parent0' = start
    /\ docs' = [docs EXCEPT !["M"] = o.doc]
    /\ m_cleared' = o.cleared
    /\ files' = [f \in DOMAIN files \cup {FileName(record.mods_id)} |->
                    IF f = FileName(record.mods_id) THEN o.doc ELSE files[f]]
    /\ IF o.err # NoError
       THEN /\ raised' = o.err
            /\ UNCHANGED <<index, called>>
       ELSE /\ index' = index + 1
            /\ called' = Append(called, calls)
            /\ UNCHANGED raised

\* lines 889-895 with the mapper now bound to a document: the add_data calls,
\* then the file of the record
WriteRecord(record, parent, start, o, calls) ==
    /\ m_mods' = "M"
    /\ m_parent' = parent
    /\ parent0' = start
    /\ docs' = [docs EXCEPT !["M"] = o.doc]
    /\ m_cleared' = o.cleared
    /\ IF o.err # NoError
       THEN /\ raised' = o.err
            /\ UNCHANGED <<files, index, called>>
       ELSE /\ files' = [f \in DOMAIN files \cup {FileName(record.mods_id)} |->
                            IF f = FileName(record.mods_id) THEN o.doc ELSE files[f]]
            /\ index' = index + 1
            /\ called' = Append(called, calls)
            /\ UNCHANGED raised

\* one pass of the loop of process(), lines 876-895
PassOfLoop(record) ==
    IF FileName(record.mods_id) \in DOMAIN files THEN Raise("already exists!")
    ELSE IF ~copy_parent_to_children
         THEN WriteRecord(record, "None", MakeMods, Build(MakeMods, {}, record.field_data),
                          CallsMade(MakeMods, {}, record.field_data))
    ELSE IF FileName(record.id) \in DOMAIN files
         THEN WriteRecord(record, "file", files[FileName(record.id)],
                          Build(files[FileName(record.id)], {}, record.field_data),
                          CallsMade(files[FileName(record.id)], {}, record.field_data))
    ELSE IF m_mods = "none" THEN Raise("UnboundLocalError")
    ELSE WriteRecord(record, m_parent, parent0,
                     Build(docs[m_mods], m_cleared, record.field_data),
                     CallsMade(docs[m_mods], m_cleared, record.field_data))

\* process(): the next record
ProcessRecord ==
    /\ raised = NoError
    /\ index <= Len(records)
    /\ PassOfLoop(records[index])
    /\ UNCHANGED <<records, copy_parent_to_children, feed, last, ncalls, targeted, shadow>>
    /\ UNCHANGED <<parserVars, divsVars, handlerVars, dateVars>>

NextProcess == ProcessRecord

SpecProcess == InitProcess /\ [][NextProcess]_vars

(***************************************************************************)
(* DataHandler.get_mods_records.  A cell is a string; a row is the list of *)
(* cells get_row returns for it; the sheet is its first row, its control   *)
(* row and the data rows after the control row.                            *)
(***************************************************************************)
\* val.lower(), for the words the headers of the sheets are written with
Lower(val) ==
    LET LowerWord(w) ==
            CASE w \in {"ID", "Id"} -> "id"
              [] w \in {"MODS", "Mods"} -> "mods"
              [] OTHER -> w
    IN  [i \in 1..Len(val) |-> LowerWord(val[i])]

\* the words of the sheets that begin with 'mods'
ModsWords ==
    {"mods", "mods:mods", "mods:titleInfo", "mods:title", "mods:subject", "mods:topic"}

\* val.startswith(u'<mods')
StartsWithMods(val) == Len(val) >= 2 /\ val[1] = "<" /\ val[2] \in ModsWords

\* _get_col_from_id_names: the first column of the control row whose
\* lowered cell is one of the names, else the first such column of row 1,
\* else None (-1)
GetColFromIdNames(h, id_names) ==
    LET Hits(row) == {i \in 0..(Len(row) - 1) : Lower(row[i + 1]) \in id_names}
        First(ctrl, top) ==
            IF ctrl # {} THEN Least(ctrl) ELSE IF top # {} THEN Least(top) ELSE -1
    IN  First(Hits(h.ctrl_row), Hits(h.first_row))

\* _get_mods_id_col: u'mods id' and '<mods:mods id="">'
GetModsIdCol(h) ==
    GetColFromIdNames(h, { <<"mods", " ", "id">>,
                           <<"<", "mods:mods", " ", "id", "=", "\"", "\"", ">">> })

\* _get_id_col: u'id', u'tracker item id', u'tracker id', u'record name',
\* u'file id'
GetIdCol(h) ==
    GetColFromIdNames(h, { <<"id">>, <<"tracker", " ", "item", " ", "id">>,
                           <<"tracker", " ", "id">>, <<"record", " ", "name">>,
                           <<"file", " ", "id">> })

\* _get_filename_col: u'file name', u'filename', u'file_id'
GetFilenameCol(h) ==
    GetColFromIdNames(h, { <<"file", " ", "name">>, <<"filename">>, <<"file_id">> })

\* get_cols_to_map: the columns whose control-row cell starts a MODS tag
GetColsToMap(h) == {i \in 0..(Len(h.ctrl_row) - 1) : StartsWithMods(h.ctrl_row[i + 1])}

RECURSIVE FieldDataOfRowUnfiltered(_, _, _, _)
\* a variant of that loop without the test of the length of the value
FieldDataOfRowUnfiltered(h, data_row, i, cols_to_map) ==
    IF i >= Len(data_row) THEN <<>>
    ELSE IF i \in cols_to_map
         THEN << <<h.ctrl_row[i + 1], data_row[i + 1]>> >>
                  \o FieldDataOfRowUnfiltered(h, data_row, i + 1, cols_to_map)
         ELSE FieldDataOfRowUnfiltered(h, data_row, i + 1, cols_to_map)

RECURSIVE FieldDataOfRow(_, _, _, _)
\* "for i, val in enumerate(data_row)", lines 163-165
FieldDataOfRow(h, data_row, i, cols_to_map) ==
    IF i >= Len(data_row) THEN <<>>
    ELSE IF i \in cols_to_map /\ Len(data_row[i + 1]) > 0
         THEN << <<h.ctrl_row[i + 1], data_row[i + 1]>> >>
                  \o FieldDataOfRow(h, data_row, i + 1, cols_to_map)
         ELSE FieldDataOfRow(h, data_row, i + 1, cols_to_map)

\* lines 166-168: the names of the data files of a row
DataFilesOfRow(data_row, data_file_col) ==
    LET Strip(pieces) == [i \in 1..Len(pieces) |-> PyStrip(pieces[i])]
    IN  IF data_file_col = -1 THEN <<>>
        ELSE Strip(PySplit(data_row[data_file_col + 1], ","))

\* u'%s_%s' % (rec_id, n)
Numbered(rec_id, n) == rec_id \o <<"_", ToString(n)>>

\* a variant of the mods id of a row that numbers the first record of a
\* parent-type dataset as well
ModsIdOfRowAllNumbered(h, data_row, rec_id, mods_id_col, mods_ids) ==
    IF mods_id_col # -1
    THEN [mods_id |-> PyStrip(data_row[mods_id_col + 1]), mods_ids |-> mods_ids]
    ELSE IF rec_id \in DOMAIN mods_ids
    THEN [mods_id |-> Numbered(rec_id, mods_ids[rec_id]),
          mods_ids |-> [mods_ids EXCEPT ![rec_id] = @ + 1]]
    ELSE [mods_id |-> Numbered(rec_id, 1), mods_ids |-> DictPut(mods_ids, rec_id, 2)]

\* lines 149-161: the mods id of a row and the counters after it
ModsIdOfRow(h, data_row, rec_id, mods_id_col, mods_ids) ==
    IF mods_id_col # -1
    THEN [mods_id |-> PyStrip(data_row[mods_id_col + 1]), mods_ids |-> mods_ids]
    ELSE IF rec_id \in DOMAIN mods_ids
    THEN [mods_id |-> Numbered(rec_id, mods_ids[rec_id]),
          mods_ids |-> [mods_ids EXCEPT ![rec_id] = @ + 1]]
    ELSE IF h.obj_type = "parent"
    THEN [mods_id |-> rec_id, mods_ids |-> DictPut(mods_ids, rec_id, 1)]
    ELSE [mods_id |-> Numbered(rec_id, 1), mods_ids |-> DictPut(mods_ids, rec_id, 2)]

RECURSIVE ModsRecordsLoop(_, _, _, _, _, _)
\* "for data_row in self._get_data_rows()", lines 143-169
ModsRecordsLoop(h, k, id_col, data_file_col, mods_records, mods_ids) ==
    LET Made(data_row, rec_id, m) ==
            ModsRecordsLoop(h, k + 1, id_col, data_file_col,
                Append(mods_records,
                       [id |-> rec_id, mods_id |-> m.mods_id,
                        field_data |-> FieldDataOfRow(h, data_row, 0, GetColsToMap(h)),
                        data_files |-> DataFilesOfRow(data_row, data_file_col)]),
                m.mods_ids)
        Row(data_row, rec_id) ==
            IF rec_id = <<>>
            THEN ModsRecordsLoop(h, k + 1, id_col, data_file_col, mods_records, mods_ids)
            ELSE Made(data_row, rec_id,
                      ModsIdOfRow(h, data_row, rec_id, GetModsIdCol(h), mods_ids))
    IN  IF k > Len(h.rows) THEN mods_records
        ELSE Row(h.rows[k], PyStrip(h.rows[k][id_col + 1]))

\* DataHandler.get_mods_records: the records, or the exception raised
GetModsRecords(h) ==
    LET Found(id_col) ==
            IF id_col = -1 THEN [err |-> "no ID column", mods_records |-> <<>>]
            ELSE [err |-> NoError,
                  mods_records |-> ModsRecordsLoop(h, 1, id_col, GetFilenameCol(h), <<>>, EmptyDict)]
    IN  Found(GetIdCol(h))

(***************************************************************************)
(* The sheet runs: process() on a data handler, from get_mods_records() to *)
(* the file of the last record.                                            *)
(***************************************************************************)
\* the number of data rows of a sheet
MaxRows == 3

\* the first row and the control row of a sheet of four columns: the id
\* named in the first row only; a mods-id column; a mods-id column that is
\* a MODS path as well; no id column
Layouts ==
    { [first_row |-> << <<"ID">>, <<"Title">>, <<"Comment">>, <<"Subject">> >>,
       ctrl_row |-> << <<>>, PathTitle, <<"<", "comment", ">">>, PathSubject >>],
      [first_row |-> << <<"Record">>, <<"Mods">>, <<"Title">>, <<"Subject">> >>,
       ctrl_row |-> << <<"Id">>, <<"Mods", " ", "ID">>, PathTitle, PathSubject >>],
      [first_row |-> << <<"Record">>, <<"Mods">>, <<"Title">>, <<"Subject">> >>,
       ctrl_row |-> << <<"id">>, <<"<", "mods:mods", " ", "ID", "=", "\"", "\"", ">">>,
                       PathTitle, PathSubject >>],
      [first_row |-> << <<"Record">>, <<"Title">>, <<"Comment">>, <<"Subject">> >>,
       ctrl_row |-> << <<"record">>, PathTitle, <<"comment">>, PathSubject >>] }

\* data rows: ids 'x', ' x ' and 'y', a row without id, empty and blank
\* cells, and the id 'x_1', written as the symbols the numbering of line 153
\* makes of the id 'x'
DataRows ==
    { << <<"x">>, <<"m1">>, <<"a">>, <<"b">> >>,
      << <<" ", "x", " ">>, <<" ", "m2">>, <<>>, <<"b">> >>,
      << <<"y">>, <<"m3">>, <<" ">>, <<>> >>,
      << <<>>, <<"m4">>, <<"a">>, <<"b">> >>,
      << <<"x", "_", "1">>, <<"m5">>, <<"a">>, <<>> >> }

Sheets ==
    { [first_row |-> l.first_row, ctrl_row |-> l.ctrl_row, rows |-> rows, obj_type |-> t] :
        l \in Layouts, rows \in UNION { [1..n -> DataRows] : n \in 0..MaxRows },
        t \in {"parent", "child"} }

\* MODS_DIR before the run: the file of parent x, and none for parent y
InitSheet ==
    /\ sheet \in Sheets
    /\ got_records = FALSE
    /\ records = <<>>
    /\ copy_parent_to_children \in BOOLEAN
    /\ files = [f \in {FileName(<<"x">>)} |-> ParentDoc]
    /\ ProcessStart
    /\ DateIdle

\* "for record in dataHandler.get_mods_records()", line 876: the call
CallGetModsRecords ==
    /\ ~got_records
    /\ sheet # NoSheet
    /\ got_records' = TRUE
    /\ LET Got(r) == records' = r.mods_records /\ raised' = r.err
       IN  Got(GetModsRecords(sheet))
    /\ UNCHANGED <<sheet, copy_parent_to_children, files, index, called, feed>>
    /\ UNCHANGED <<mapperVars, parserVars, divsVars, dateVars>>

NextSheet == CallGetModsRecords \/ ProcessRecord

SpecSheet == InitSheet /\ [][NextSheet]_vars

(***************************************************************************)
(* process_text_date, lines 308-396.  A text is the sequence of its        *)
(* characters.  An argument is a value with its type: the program gives    *)
(* the function strings, numbers and None.                                 *)
(***************************************************************************)
Unicode(text) == [type |-> "unicode", value |-> text]

PyIntValue(text) == [type |-> "int", value |-> text]

PyNone == [type |-> "NoneType", value |-> <<>>]

Returned(value) == [outcome |-> "returned", value |-> value]

DigitChars == <<"0", "1", "2", "3", "4", "5", "6", "7", "8", "9">>

IsDigit(c) == \E i \in 1..10 : DigitChars[i] = c

\* int() of one digit, and of a text of digits
DigitValue(c) == (CHOOSE i \in 1..10 : DigitChars[i] = c) - 1

RECURSIVE IntOfDigits(_)
IntOfDigits(text) ==
    IF text = <<>> THEN 0
    ELSE 10 * IntOfDigits(SubSeq(text, 1, Len(text) - 1)) + DigitValue(text[Len(text)])

\* the four compiled patterns, lines 320-324: '^\d?\d' sep '\d?\d' sep and
\* two or four '\d', then '$'
mmddyy == [sep |-> "/", year |-> 2]

mmddyyyy == [sep |-> "/", year |-> 4]

mmddyy2 == [sep |-> "-", year |-> 2]

mmddyyyy2 == [sep |-> "-", year |-> 4]

\* the three fields of a text made of one or two digits, sep, one or two
\* digits, sep and year digits; <<>> when the text is not of that form
Fields3(text, sep, year) ==
    LET Cut(a, b) ==
            << SubSeq(text, 1, a), SubSeq(text, a + 2, a + b + 1),
               SubSeq(text, a + b + 3, Len(text)) >>
        Fits(a, b) ==
            /\ Len(text) = a + b + 2 + year
            /\ text[a + 1] = sep
            /\ text[a + b + 2] = sep
            /\ \A i \in (1..Len(text)) \ {a + 1, a + b + 2} : IsDigit(text[i])
        Lens == { ab \in (1..2) \X (1..2) : Fits(ab[1], ab[2]) }
    IN  IF Lens = {} THEN <<>>
        ELSE LET Pick(ab) == Cut(ab[1], ab[2]) IN Pick(CHOOSE ab \in Lens : TRUE)

\* pattern.search(strDate): '$' matches at the end of the string and before a
\* newline that ends the string
Search(pattern, text) ==
    LET body == IF Len(text) > 0 /\ text[Len(text)] = "\n"
                THEN SubSeq(text, 1, Len(text) - 1)
                ELSE text
    IN  Fields3(body, pattern.sep, pattern.year) # <<>>

IsLeap(year) == year % 4 = 0 /\ (year % 100 # 0 \/ year % 400 = 0)

DaysInMonth(year, month) ==
    IF month = 2 THEN (IF IsLeap(year) THEN 29 ELSE 28)
    ELSE IF month \in {4, 6, 9, 11} THEN 30
    ELSE 31

NoDateValue == [raised |-> TRUE, year |-> 0, month |-> 0, day |-> 0]

\* datetime.datetime(year, month, day): ValueError for a year before MINYEAR,
\* a month outside 1..12 and a day the month does not have
Datetime(year, month, day) ==
    IF year \in 1..9999 /\ month \in 1..12 /\ day \in 1..DaysInMonth(year, month)
    THEN [raised |-> FALSE, year |-> year, month |-> month, day |-> day]
    ELSE NoDateValue

\* datetime.datetime.strptime(strDate, format) for the formats of lines
\* 329-367: first is "m" for '%m sep %d sep year' and "d" for '%d sep %m sep
\* year', year is "y" for %y and "Y" for %Y.  The whole string has to be
\* converted; %m takes 1..12 and %d 1..31, with or without a leading zero; %y
\* is a year of 1969..2068
Strptime(text, sep, first, year) ==
    LET fields == Fields3(text, sep, IF year = "y" THEN 2 ELSE 4)
        Year(n) == IF year = "Y" THEN n ELSE IF n >= 69 THEN 1900 + n ELSE 2000 + n
        Of(f1, f2, y) ==
            IF f1 = 0 \/ f2 = 0 THEN NoDateValue
            ELSE IF first = "m" THEN Datetime(Year(y), f1, f2)
            ELSE Datetime(Year(y), f2, f1)
    IN  IF fields = <<>> THEN NoDateValue
        ELSE Of(IntOfDigits(fields[1]), IntOfDigits(fields[2]), IntOfDigits(fields[3]))

\* n in at least width digits
RECURSIVE ZeroPadded(_, _)
ZeroPadded(n, width) ==
    IF width <= 1 /\ n < 10 THEN <<DigitChars[n + 1]>>
    ELSE Append(ZeroPadded(n \div 10, width - 1), DigitChars[(n % 10) + 1])

\* newDate.strftime('%Y-%m-%d').  The program is Python 2 code (basestring,
\* line 314; unicode, line 423), whose strftime raises ValueError for a year
\* before 1900
Strftime(newDate) ==
    IF newDate.year < 1900 THEN [outcome |-> "ValueError", value |-> NoDate]
    ELSE Returned(Unicode(ZeroPadded(newDate.year, 4) \o <<"-">>
                          \o ZeroPadded(newDate.month, 2) \o <<"-">>
                          \o ZeroPadded(newDate.day, 2)))

\* lines 326-370: the pattern that matches decides the two formats tried,
\* month first and then day first; format is "" when no pattern matches
TryFormats(text) ==
    LET Try(pattern, year, monthFirst, dayFirst) ==
            LET Second(d2) ==
                    IF d2.raised THEN [format |-> "ValueError", newDate |-> NoDateValue]
                    ELSE [format |-> dayFirst, newDate |-> d2]
                First(d1) ==
                    IF d1.raised THEN Second(Strptime(text, pattern.sep, "d", year))
                    ELSE [format |-> monthFirst, newDate |-> d1]
            IN  First(Strptime(text, pattern.sep, "m", year))
    IN  IF Search(mmddyy, text) THEN Try(mmddyy, "y", "mmddyy", "ddmmyy")
        ELSE IF Search(mmddyyyy, text) THEN Try(mmddyyyy, "Y", "mmddyyyy", "ddmmyyyy")
        ELSE IF Search(mmddyy2, text) THEN Try(mmddyy2, "y", "mmddyy", "ddmmyy")
        ELSE IF Search(mmddyyyy2, text) THEN Try(mmddyyyy2, "Y", "mmddyyyy", "ddmmyyyy")
        ELSE [format |-> "", newDate |-> NoDateValue]

process_text_date(date, force) ==
    IF date.type # "unicode" THEN Returned(date)
    ELSE IF Len(date.value) = 0 THEN Returned(date)
    ELSE LET Rest(t) ==
                 IF t.format \in {"", "ValueError"} THEN Returned(date)
                 ELSE IF t.newDate.day <= 12 /\ t.newDate.day # t.newDate.month
                 THEN (IF force THEN Strftime(t.newDate) ELSE Returned(date))
                 ELSE IF t.format = "mmddyy" \/ t.format = "ddmmyy"
                 THEN (IF force THEN Strftime(t.newDate) ELSE Returned(date))
                 ELSE Strftime(t.newDate)
         IN  Rest(TryFormats(date.value))

\* the one- and two-digit fields, the separators and the years of the dates
\* given to the function
DayMonthTexts ==
    { <<"5">>, <<"0", "5">>, <<"4">>, <<"2">>, <<"0">>, <<"1", "2">>, <<"1", "3">>,
      <<"1", "4">>, <<"2", "9">>, <<"3", "1">> }

Separators == {"/", "-"}

YearTexts ==
    { <<"9", "9">>, <<"0", "0">>, <<"6", "8">>, <<"6", "9">>,
      <<"2", "0", "0", "0">>, <<"2", "0", "0", "1">>, <<"1", "9", "0", "0">>,
      <<"1", "8", "5", "0">>, <<"0", "0", "0", "0">> }

Endings == { <<>>, <<"\n">> }

DateTexts ==
    { f1 \o <<s1>> \o f2 \o <<s2>> \o y \o e :
        f1 \in DayMonthTexts, s1 \in Separators, f2 \in DayMonthTexts, s2 \in Separators,
        y \in YearTexts, e \in Endings }

\* tests.py lines 190-192 and texts that are no date of the four shapes
OtherArguments ==
    { PyIntValue(<<"1">>), PyNone, Unicode(<<>>), Unicode(<<"a">>),
      Unicode(<<"5", "/", "1", "4">>),
      Unicode(<<"2", "0", "0", "0", "-", "0", "5", "-", "1", "4">>),
      Unicode(<<" ", "5", "/", "1", "4", "/", "2", "0", "0", "0">>),
      Unicode(<<"1", "1", "5", "/", "1", "4", "/", "2", "0", "0", "0">>),
      Unicode(<<"5", "/", "1", "4", "/", "2", "0", "0">>) }

Arguments == { Unicode(t) : t \in DateTexts } \cup OtherArguments

InitDate ==
    /\ strDate \in Arguments
    /\ forceDates \in BOOLEAN
    /\ text_date = NotCalled
    /\ MapperIdle
    /\ ParserIdle
    /\ ProcessIdle
    /\ DivsIdle
    /\ HandlerIdle
    /\ feed = [calls |-> {}, max |-> 0]

\* text_date = process_text_date(strDate, forceDates)
CallProcessTextDate ==
    /\ text_date = NotCalled
    /\ strDate # NoDate
    /\ text_date' = process_text_date(strDate, forceDates)
    /\ UNCHANGED <<strDate, forceDates, feed>>
    /\ UNCHANGED <<mapperVars, parserVars, processVars, divsVars, handlerVars>>

NextDate == CallProcessTextDate

SpecDate == InitDate /\ [][NextDate]_vars

(***************************************************************************)
(* Properties of the merge runs                                            *)
(***************************************************************************)
\* the fields of the document
Fields == DOMAIN MakeMods

\* the document field each name of _cleared_fields guards, for the repeatable
\* categories
RepeatableKeys ==
    {"names", "title_info_list", "languages", "genres", "notes", "subjects",
     "identifiers", "locations", "related", "origin_info"}

KeyField(key) == IF key = "related" THEN "related_items" ELSE key

\* the lists of the origin-info block
OriginLists == {"created", "issued", "captured", "valid", "modified", "copyright", "other", "places"}

\* every element of s is still in t, at its place
IsPrefix(s, t) == Len(s) <= Len(t) /\ \A i \in 1..Len(s) : t[i] = s[i]

\* the entries of a field before a call are all still there after it; a name
\* may have gained name parts, the origin-info block entries in its lists
Kept(field, old, new) ==
    CASE field = "names" ->
            /\ Len(old) <= Len(new)
            /\ \A i \in 1..Len(old) :
                  /\ new[i].type = old[i].type
                  /\ new[i].roles = old[i].roles
                  /\ IsPrefix(old[i].name_parts, new[i].name_parts)
      [] field = "origin_info" ->
            old # None =>
                /\ new # None
                /\ \A l \in OriginLists : IsPrefix(old[1][l], new[1][l])
      [] OTHER -> IsPrefix(old, new)

\* C1: over any sequence of add_data calls on one Mapper, a repeatable
\* category is cleared at most once, by the first call that touches it: the
\* set of touched categories only grows, and a call leaves every entry of an
\* already touched category (so every entry an earlier call of this Mapper
\* appended) in place, whatever category the call targets.
C1_ClearedAtMostOnce ==
    [][ (m_mods # "none" /\ m_mods' = m_mods) =>
            /\ m_cleared \subseteq m_cleared'
            /\ \A key \in m_cleared \cap RepeatableKeys :
                  Kept(KeyField(key), docs[m_mods][KeyField(key)], docs'[m_mods][KeyField(key)])
      ]_vars

\* two subject calls on a mapper with a parent: the collection holds the one
\* entry of one call and the two of the other, and neither of the parent's
C1_Witness ==
    /\ m_parent = "P"
    /\ ncalls = 2
    /\ last.path = PathSubject
    /\ last.err = NoError
    /\ Len(docs[m_mods].subjects) = 3

\* the elements of a sequence
Range(s) == {s[i] : i \in 1..Len(s)}

\* no entry of the field is an entry of the parent's field
NoParentEntry(field, value) ==
    IF field = "origin_info"
    THEN value # None =>
            \A l \in OriginLists : Range(value[1][l]) \cap Range(parent0.origin_info[1][l]) = {}
    ELSE Range(value) \cap Range(parent0[field]) = {}

\* C2: in merge mode, once a call has touched a repeatable category, the
\* category holds no entry inherited from the parent: it holds exactly what
\* the same calls put into the document of a Mapper that has no parent.
C2_InheritedEntriesGone ==
    (m_mods # "none" /\ m_parent = "P") =>
        \A key \in m_cleared \cap RepeatableKeys :
            /\ docs[m_mods][KeyField(key)] = shadow.doc[KeyField(key)]
            /\ NoParentEntry(KeyField(key), docs[m_mods][KeyField(key)])

\* a mapper with a parent whose subjects were touched and now hold an entry
C2_Witness ==
    /\ m_parent = "P"
    /\ "subjects" \in m_cleared
    /\ last.err = NoError
    /\ docs[m_mods].subjects # <<>>
    /\ parent0.subjects # <<>>

\* C3: in merge mode an add_data call changes no field but the one of its
\* category, and a field no call has targeted holds what the parent held.
C3_OtherCategoriesUnchanged ==
    /\ [][ (m_mods # "none" /\ m_mods' = m_mods /\ m_parent = "P") =>
               \A f \in Fields \ Targets(last'.path, last'.data) :
                   docs'[m_mods][f] = docs[m_mods][f] ]_vars
    /\ []( (m_mods # "none" /\ m_parent = "P") =>
               \A f \in Fields \ targeted : docs[m_mods][f] = parent0[f] )

\* two calls on a mapper with a parent, for subjects and for titles: both
\* changed, the names are the parent's
C3_Witness ==
    /\ m_parent = "P"
    /\ ncalls = 2
    /\ targeted = {"subjects", "title_info_list"}
    /\ docs[m_mods].subjects # parent0.subjects
    /\ docs[m_mods].title_info_list # parent0.title_info_list
    /\ docs[m_mods].names = parent0.names
    /\ parent0.names # <<>>

\* C4: the document the parent's owner holds is never changed by the child
\* mapper: it has the content it had when the child was constructed.
C4_ParentNeverMutated == m_parent = "P" => docs["P"] = parent0

\* the per-group paths of the merge runs and the field each appends to
GroupPaths ==
    {PathName, PathTitle, PathLanguage, PathGenre, PathNote, PathSubject, PathIdentifier,
     PathLocation, PathRelated}

GroupField(path) ==
    CASE path = PathName -> "names"
      [] path = PathTitle -> "title_info_list"
      [] path = PathLanguage -> "languages"
      [] path = PathGenre -> "genres"
      [] path = PathNote -> "notes"
      [] path = PathSubject -> "subjects"
      [] path = PathIdentifier -> "identifiers"
      [] path = PathLocation -> "locations"
      [] path = PathRelated -> "related_items"

GroupKey(path) == IF path = PathRelated THEN "related" ELSE GroupField(path)

\* the text the entry made by a per-group path of the merge runs carries
EntryText(path, entry) ==
    CASE path = PathName -> entry.name_parts[1].text[1]
      [] path = PathTitle -> entry.title[1]
      [] path = PathLanguage -> entry.terms[1].text
      [] path \in {PathGenre, PathNote, PathIdentifier} -> entry.text
      [] path = PathSubject -> entry.topic_list[1].text
      [] path = PathLocation -> entry.url[1]
      [] path = PathRelated -> entry.title[1]

\* the values of the merge runs split on '||' by hand: the entries that are
\* not empty once trimmed, in order
ExpectedEntries(data) ==
    CASE data = <<"a">> -> << <<"a">> >>
      [] data = <<"a">> \o Bar \o <<"b">> -> << <<"a">>, <<"b">> >>
      [] data = <<"a">> \o Bar -> << <<"a">> >>
      [] data = <<" ">> -> << >>

\* the entries of a field that a call appends to: none of them on the first
\* touch of the category
EntriesBefore(path) ==
    IF GroupKey(path) \in m_cleared THEN docs[m_mods][GroupField(path)] ELSE <<>>

\* C9: a successful add_data call for a per-group category appends one entry
\* for each entry of the value that is not empty once trimmed, in the order of
\* the value, and no entry for an empty one.
C9_OneEntryPerGroup ==
    [][ (m_mods # "none" /\ m_mods' = m_mods /\ last'.err = NoError
            /\ last'.path \in GroupPaths) =>
            /\ Len(docs'[m_mods][GroupField(last'.path)])
                  = Len(EntriesBefore(last'.path)) + Len(ExpectedEntries(last'.data))
            /\ IsPrefix(EntriesBefore(last'.path), docs'[m_mods][GroupField(last'.path)])
            /\ \A i \in 1..Len(ExpectedEntries(last'.data)) :
                  EntryText(last'.path,
                            docs'[m_mods][GroupField(last'.path)][Len(EntriesBefore(last'.path)) + i])
                      = ExpectedEntries(last'.data)[i]
      ]_vars

\* 'a || ' for subjects after 'a || b': two entries, then one more
C9_Witness ==
    /\ ncalls = 2
    /\ last.path = PathSubject
    /\ last.data = <<"a">> \o Bar
    /\ last.err = NoError
    /\ Len(docs[m_mods].subjects) = 3

(***************************************************************************)
(* Properties of the process() runs                                        *)
(***************************************************************************)
\* the document a Mapper made for this record alone starts from: the parent
\* document when the record has a parent file and parents are copied, else
\* an empty document
StartDoc(record) ==
    IF copy_parent_to_children /\ FileName(record.id) \in DOMAIN ParentFiles
    THEN ParentFiles[FileName(record.id)]
    ELSE MakeMods

\* C5: every record process() handles is built by a Mapper made for that
\* record alone, from the parent document if the parent file exists and from
\* an empty document otherwise: no record is left without a mapper, and the
\* file of a record holds what its own fields make of that start.
C5_MapperPerRecord ==
    /\ raised # "UnboundLocalError"
    /\ \A k \in 1..(index - 1) :
          files[FileName(records[k].mods_id)]
              = Build(StartDoc(records[k]), {}, records[k].field_data).doc

\* C27: process() never overwrites a file that exists, and writes the file
\* of a record only after every add_data call of the record has returned:
\* a pass for a record whose file exists or with a call that fails writes
\* nothing, no pass follows it, and the files written before stay as they
\* are.
C27_WriteOnlyAfterSuccess ==
    [][ /\ \A f \in DOMAIN files : f \in DOMAIN files' /\ files'[f] = files[f]
        /\ files' # files =>
              /\ raised = NoError /\ raised' = NoError
              /\ index <= Len(records) /\ index' = index + 1
              /\ FileName(records[index].mods_id) \notin DOMAIN files
              /\ DOMAIN files' = DOMAIN files \cup {FileName(records[index].mods_id)}
              /\ records[index].field_data \notin FailingFieldData
              /\ called' = Append(called, records[index].field_data)
        /\ (raised # NoError \/ raised' # NoError) => files' = files /\ index' = index
        /\ (index <= Len(records) /\ raised = NoError
              /\ (FileName(records[index].mods_id) \in DOMAIN files
                    \/ records[index].field_data \in FailingFieldData)) =>
              raised' # NoError
      ]_vars

\* the first record was written, the second has a call that failed: its file
\* is not there, the file of the first is
C27_Witness ==
    /\ index = 2
    /\ Len(records) = 2
    /\ raised = "element not handled!"
    /\ records[2].field_data \in FailingFieldData
    /\ FileName(records[1].mods_id) \in DOMAIN files
    /\ FileName(records[2].mods_id) \notin DOMAIN files
    /\ files[FileName(records[1].mods_id)].title_info_list # <<>>

(***************************************************************************)
(* Properties of the parser runs                                           *)
(***************************************************************************)
\* the string, trimmed, does not begin with '<'
NoOpener(path) == PyStrip(path) = <<>> \/ PyStrip(path)[1] # "<"

\* some '<' has no '>' of its own: none follows it before the next '<'
Unterminated(path) ==
    \E i \in 1..Len(path) :
        /\ path[i] = "<"
        /\ \A j \in (i + 1)..Len(path) :
              path[j] = ">" => \E k \in (i + 1)..(j - 1) : path[k] = "<"

\* the quotes after place q
QuotesAfter(path, q) == {k \in (q + 1)..Len(path) : path[k] = "\""}

\* some value opened by '="' is not closed: no quote follows in its tag, or
\* the next quote is the one that opens the next assignment
MissingClosingQuote(path) ==
    \E q \in 2..Len(path) :
        /\ path[q] = "\"" /\ path[q - 1] = "="
        /\ \/ QuotesAfter(path, q) = {}
           \/ path[Least(QuotesAfter(path, q)) - 1] = "="
           \/ \E k \in q..Least(QuotesAfter(path, q)) : path[k] = ">"

\* C6: parsing fails, and yields no parsed path, for every string that does
\* not begin with '<' once trimmed (the empty and the blank string too), in
\* which some tag has no matching '>', or in which some attribute assignment
\* lacks its closing quote.
C6_MalformedPathsFail ==
    (loc # NotParsed /\ (NoOpener(raw) \/ Unterminated(raw) \/ MissingClosingQuote(raw)))
        => ~loc.ok

\* the texts the loops of the parser can be given: the slices of a path
Slices(path) == {SubSeq(path, i, j) : i \in 1..(Len(path) + 1), j \in 0..Len(path)}

\* a pass that does not raise leaves a text shorter than the one it started
\* with
Shortens(before, p, field) == ~p.raised => Len(p[field]) < Len(before)

\* C30: constructing a LocationParser ends for every path, with a parsed
\* path or a raise: on every text of the path that is not empty, a pass of
\* the section loop and a pass of the attribute loop raise or leave a
\* strictly shorter text, so that each loop ends within as many passes as the
\* text is long (the attribute loop starts from the trimmed text), with the
\* outcome the parser has for that text.
C30_ParserTerminates ==
    loc # NotParsed =>
        \A text \in Slices(raw) \ {<<>>} :
            /\ Shortens(text, SectionAfterPass(text), "section")
            /\ Shortens(text, AttributesAfterPass(text), "data")
            /\ SectionLoop(text, Len(text)) # "no end"
            /\ AttributesLoop(PyStrip(text), Len(text)) # "no end"
            /\ (SectionLoop(text, Len(text)) = "ends") = ParseSection(text, <<>>).ok
            /\ (AttributesLoop(PyStrip(text), Len(text)) = "ends") = ParseAttributes(text).ok

\* a path with three attributes in its base tag and a section with inline
\* text and a closing tag has been parsed
C30_Witness ==
    /\ raw = TagWith("a", Attr("t", "x") \o Attr("u", "y") \o Attr("v", "z"))
                 \o Tag("b") \o <<"w", "<", "/", "b", ">">>
    /\ loc # NotParsed
    /\ loc.ok
    /\ SectionLoop(Tag("b") \o <<"w", "<", "/", "b", ">">>, 2) = "ends"
    /\ AttributesLoop(Attr("t", "x") \o Attr("u", "y") \o Attr("v", "z"), 3) = "ends"

\* the words of the parser runs that begin with a letter
AlphabeticWords ==
    {"a", "b", "c", "t", "u", "v", "w", "x", "y", "z", "type", "asdf1234", "mods:name",
     "mods:subject"}

\* the name is not empty and begins with a letter
StartsAlphabetic(name) == name # <<>> /\ name[1] \in AlphabeticWords

\* C23: every path that parses has a base element whose name is not empty
\* and begins with a letter; a path whose first tag has an empty name or a
\* name that begins otherwise ('<>', '< type="x">') fails to parse.
C23_BaseElementNamed ==
    (loc # NotParsed /\ loc.ok) => StartsAlphabetic(loc.base_element.element)

(***************************************************************************)
(* Properties of the single-call runs                                      *)
(***************************************************************************)
\* C7: add_data with a well-formed path whose base element is none of the
\* recognized categories fails with the unhandled-element error, whatever the
\* value.
C7_UnhandledElementFails ==
    last.path \in UnhandledPaths => last.err = "element not handled!"

\* C8: an originInfo, subject or location call whose path has a section with
\* an element the category does not know fails with an unhandled-element
\* error, whatever the aligned division holds.
C8_UnknownSectionFails ==
    (last.path \in UnknownSectionPaths /\ last.data \in SectionValues)
        => last.err \in {"unhandled originInfo element", "element not handled!"}

\* C15: add_data with a path of two sections and a value whose entries have
\* one division completes without error, for every category.
C15_MissingDivisionsNoError ==
    (last.path \in SectionedPaths /\ last.data \in ShortValues) => last.err = NoError

\* the geographic value a subject made from the i-th entry of a value is to
\* have: the inline text of the path, or the entry when the path has none
ExpectedGeographic(path, data, i) ==
    IF path = PathGeographicInline THEN Some(<<"Rome">>)
    ELSE IF data = <<"a">> \o Bar \o <<"b">> /\ i = 2 THEN Some(<<"b">>)
    ELSE Some(<<"a">>)

\* C16: a subject made for a path whose geographic element carries inline
\* text has that text as its geographic value; the division is the value
\* only when the element has no inline text.
C16_InlineGeographicFirst ==
    (last.path \in GeographicPaths /\ last.err = NoError) =>
        \A i \in 1..Len(docs[m_mods].subjects) :
            docs[m_mods].subjects[i].geographic = ExpectedGeographic(last.path, last.data, i)

\* the first division of the first entry of a name-part value, by hand: the
\* whole first entry for a path without sections
FirstDivision(path, data) ==
    IF path # TwoSections(PathNamePart) /\ data \in {<<"a">> \o Hash \o <<"b">>,
                                                     <<"a">> \o Hash \o <<"b">> \o Bar \o <<"c">>}
    THEN <<"a">> \o Hash \o <<"b">>
    ELSE <<"a">>

\* the name part a bare mods:namePart call is to append
ExpectedPart(path, data) ==
    [text |-> Some(FirstDivision(path, data)),
     type |-> IF path = PathNamePartPlain THEN None ELSE Some(<<"date">>)]

\* C17: a bare mods:namePart call appends exactly one name part, with the
\* text of the first division of the first entry and the type of the base
\* element, to the last name of the document; no name is added or removed,
\* the names are not cleared and every other name stays as it is.
C17_NamePartToLastName ==
    [][ (m_mods # "none" /\ m_mods' = m_mods /\ last'.path \in NamePartPaths
            /\ last'.err = NoError) =>
            /\ Len(docs[m_mods].names) >= 1
            /\ Len(docs'[m_mods].names) = Len(docs[m_mods].names)
            /\ m_cleared' = m_cleared
            /\ \A i \in 1..(Len(docs[m_mods].names) - 1) :
                  docs'[m_mods].names[i] = docs[m_mods].names[i]
            /\ docs'[m_mods].names[Len(docs[m_mods].names)]
                  = [docs[m_mods].names[Len(docs[m_mods].names)] EXCEPT
                        !.name_parts = Append(@, ExpectedPart(last'.path, last'.data))]
      ]_vars

\* 'a#b || c' on the sectioned path, for a mapper whose document has the two
\* names of the parent: the last name has a second part 'a', the first has one
C17_Witness ==
    /\ last.path = TwoSections(PathNamePart)
    /\ last.data = <<"a">> \o Hash \o <<"b">> \o Bar \o <<"c">>
    /\ last.err = NoError
    /\ Len(docs[m_mods].names) = 2
    /\ Len(docs[m_mods].names[1].name_parts) = 1
    /\ docs[m_mods].names[2].name_parts[2] = [text |-> Some(<<"a">>), type |-> Some(<<"date">>)]

\* the hierarchical geographic a subject made from an entry is to have: the
\* inline text of the country or else the entry as country, the entry as
\* state where a state element follows the country
ExpectedHierarchical(path, text) ==
    [country |-> CASE path = PathHierarchicalBare -> None
                   [] path = PathHierarchicalCountryInline -> Some(<<"US">>)
                   [] path = PathHierarchical -> Some(<<"United", " ", "States">>)
                   [] OTHER -> Some(text),
     state |-> IF path \in {PathHierarchicalCountryState, PathHierarchical}
               THEN Some(text) ELSE None]

\* C24: a subject call with a hierarchicalGeographic section completes
\* without error for every shape of the section; the country is the inline
\* text of the country element, or the aligned division when it has none, and
\* the state is the aligned division exactly when a state element follows
\* the country.
C24_HierarchicalGeographicShapes ==
    (last.path \in HierarchicalPaths /\ last.data \in ShortValues) =>
        /\ last.err = NoError
        /\ Len(docs[m_mods].subjects) = IF last.data = <<"a">> THEN 1 ELSE 2
        /\ docs[m_mods].subjects[1].hierarchical_geographic
             = Some(ExpectedHierarchical(last.path, <<"a">>))
        /\ Len(docs[m_mods].subjects) = 2 =>
              docs[m_mods].subjects[2].hierarchical_geographic
                = Some(ExpectedHierarchical(last.path, <<"b">>))

\* C26: add_data is all-or-nothing: when a call fails (a malformed path, a
\* base element or an originInfo section element that is not recognized, a
\* missing division or section), the document of the mapper and its
\* _cleared_fields are as they were before the call.
C26_AddDataAllOrNothing ==
    [][ (m_mods # "none" /\ m_mods' = m_mods /\ ncalls' = ncalls + 1
            /\ last'.err \notin {NoError, "NoReturn"}) =>
            /\ docs'[m_mods] = docs[m_mods]
            /\ m_cleared' = m_cleared
      ]_vars

\* C29: add_data with a value that has no entry left after the split on
\* '||' and the trim does not fail and leaves the document as it was, for
\* every category: no entry is added, no scalar is set and no inherited
\* collection is cleared.
C29_BlankValueNoEffect ==
    [][ (m_mods # "none" /\ m_mods' = m_mods /\ ncalls' = ncalls + 1
            /\ last'.path \in MergePaths /\ last'.data \in BlankValues) =>
            /\ last'.err = NoError
            /\ docs'[m_mods] = docs[m_mods]
      ]_vars

\* the related items a relatedItem path of the single-call runs is to make
\* of a value of one or two entries: a title where the first section is a
\* titleInfo followed by a title, the type of the base element
ExpectedRelated(path, data) ==
    LET Item(text) ==
            [type |-> IF path = PathRelatedTwo THEN None ELSE Some(<<"host">>),
             label |-> None,
             title |-> IF path \in {PathRelatedTitled, PathRelatedTwo} THEN Some(text) ELSE None]
    IN  IF data = <<"a">> THEN << Item(<<"a">>) >>
        ELSE << Item(<<"a">>), Item(<<"b">>) >>

\* C20: a relatedItem call, for a path with or without sections, does not
\* fail and makes one related item for each entry of the value, with the
\* type and label of the base element and with the first division as title
\* exactly when the first section is a titleInfo followed by a title.
C20_RelatedItemPerEntry ==
    (last.path \in RelatedPaths /\ last.data \in ShortValues) =>
        /\ last.err = NoError
        /\ docs[m_mods].related_items = ExpectedRelated(last.path, last.data)

\* the name values of the single-call runs split by hand: for each entry that
\* is not empty, the trimmed first and second division, <<>> for a division
\* that is empty or absent
NameDivisions(data) ==
    CASE data = <<"Smith", "#", "creator">> \o Bar \o <<"Jones">> ->
            << [part |-> <<"Smith">>, role |-> <<"creator">>],
               [part |-> <<"Jones">>, role |-> <<>>] >>
      [] data = <<"Bob">> -> << [part |-> <<"Bob">>, role |-> <<>>] >>
      [] data = <<"#", "creator">> -> << [part |-> <<>>, role |-> <<"creator">>] >>
      [] data = <<"Smith", "#">> -> << [part |-> <<"Smith">>, role |-> <<>>] >>
      [] data = <<"Smith", " ", "#", " ", "creator">> ->
            << [part |-> <<"Smith">>, role |-> <<"creator">>] >>
      [] data = <<"Smith">> \o Bar \o <<"#", "creator">> ->
            << [part |-> <<"Smith">>, role |-> <<>>],
               [part |-> <<>>, role |-> <<"creator">>] >>

\* the name a name path of the single-call runs makes of one entry: a part if
\* the first division holds text; the role of the path if it has one inline,
\* else a role if the second division holds text
ExpectedName(path, entry) ==
    [type |-> Some(<<"personal">>),
     name_parts |-> IF entry.part = <<>> THEN <<>>
                    ELSE << [text |-> Some(entry.part), type |-> None] >>,
     roles |-> IF path = PathNameInlineRole
               THEN << [text |-> Some(<<"winner">>), type |-> Some(<<"text">>),
                        authority |-> None] >>
               ELSE IF entry.role = <<>> THEN <<>>
               ELSE << [text |-> Some(entry.role), type |-> None, authority |-> None] >>]

\* the last n elements of s
LastOf(s, n) == [i \in 1..n |-> s[Len(s) - n + i]]

\* C10: a name call with a role section gives each name the role text the
\* path carries inline, even for an entry with no division for the role;
\* without inline text the role text is the aligned division, and there is
\* no role when that division is empty or absent.  A name-part section whose
\* division is empty or absent adds no name part.
C10_RoleTextAndParts ==
    (last.path \in NamePaths /\ last.err = NoError) =>
        /\ Len(docs[m_mods].names) >= Len(NameDivisions(last.data))
        /\ LastOf(docs[m_mods].names, Len(NameDivisions(last.data)))
              = [i \in 1..Len(NameDivisions(last.data)) |->
                    ExpectedName(last.path, NameDivisions(last.data)[i])]

\* 'Smith#creator || Jones' on the path with the inline role: both names have
\* the role of the path
C10_Witness ==
    /\ last.path = PathNameInlineRole
    /\ last.data = <<"Smith", "#", "creator">> \o Bar \o <<"Jones">>
    /\ last.err = NoError
    /\ Len(docs[m_mods].names) = 2
    /\ docs[m_mods].names[1].roles[1].text = Some(<<"winner">>)
    /\ docs[m_mods].names[2].roles[1].text = Some(<<"winner">>)

(***************************************************************************)
(* Properties of the division runs                                         *)
(***************************************************************************)
\* the places of the unescaped dividers of an entry: a '#' with no '\' just
\* before it
Dividers(s) == {i \in 1..Len(s) : s[i] = "#" /\ (i = 1 \/ s[i - 1] # "\\")}

RECURSIVE Ascending(_)
\* the numbers of a set in ascending order
Ascending(S) ==
    IF S = {} THEN <<>> ELSE <<Least(S)>> \o Ascending(S \ {Least(S)})

RECURSIVE WithoutEscapes(_)
\* a piece with the '\' of every '\#' removed
WithoutEscapes(s) ==
    IF Len(s) < 2 THEN s
    ELSE IF s[1] = "\\" /\ s[2] = "#" THEN <<"#">> \o WithoutEscapes(SubSeq(s, 3, Len(s)))
    ELSE <<s[1]>> \o WithoutEscapes(Tail(s))

\* the pieces of an entry between its unescaped dividers, in order, each
\* '\#' in them turned into '#'
Pieces(s) ==
    LET Between(cuts) ==
            [k \in 1..(Len(cuts) - 1) |->
                WithoutEscapes(SubSeq(s, cuts[k] + 1, cuts[k + 1] - 1))]
    IN  Between(<<0>> \o Ascending(Dividers(s)) \o <<Len(s) + 1>>)

\* C11: an entry split with sectioning on gives exactly the pieces between
\* its unescaped '#' characters, in order, with every '\#' kept as a literal
\* '#' and its backslash removed.
C11_DivisionsArePieces ==
    (data_divs # NotSplit /\ loc.has_sectioned_data) =>
        /\ data_divs.state = "returned"
        /\ data_divs.divs = Pieces(entry_data)

\* the place of the first '>' of a path, where its base element ends
BaseEnd(path) == PyFind(path, ">", 0) + 1

\* the path has a '#' after its base element
HashAfterBase(path) == \E i \in (BaseEnd(path) + 1)..Len(path) : path[i] = "#"

\* C12: a path with no '#' after its base element is parsed with
\* has_sectioned_data false, and the split of any entry for it is the list
\* of that one entry, unchanged, whatever '#' and '\' it holds.
C12_UnsectionedEntryUnsplit ==
    (loc # NotParsed /\ loc.ok /\ ~HashAfterBase(raw)) =>
        /\ ~loc.has_sectioned_data
        /\ data_divs # NotSplit => data_divs = [state |-> "returned", divs |-> <<entry_data>>]

\* the entry '\#a#' split for a path of one section and no '#': one division
C12_Witness ==
    /\ raw = Tag("a") \o Tag("b")
    /\ entry_data = <<"\\", "#", "a", "#">>
    /\ data_divs = [state |-> "returned", divs |-> << <<"\\", "#", "a", "#">> >>]

\* the number of pieces the rest of a path after its base element splits
\* into on '#'
PathPieces(path) ==
    Cardinality({i \in (BaseEnd(path) + 1)..Len(path) : path[i] = "#"}) + 1

\* C13: a path that parses and has a '#' after its base element is parsed
\* with has_sectioned_data true and with as many sections as the rest of
\* the path has pieces between '#'.
C13_OneSectionPerPiece ==
    (loc # NotParsed /\ loc.ok /\ HashAfterBase(raw)) =>
        /\ loc.has_sectioned_data
        /\ Len(loc.sections) = PathPieces(raw)

\* C14: the split keeps divisions of length zero, trailing ones too: an
\* entry with n unescaped '#' gives n + 1 divisions.
C14_EmptyDivisionsKept ==
    (data_divs # NotSplit /\ loc.has_sectioned_data /\ data_divs.state = "returned") =>
        Len(data_divs.divs) = Cardinality(Dividers(entry_data)) + 1

\* C25: the split of an entry ends for every entry over '#', '\' and text,
\* those that start with '#' and end with '\' too: the working string never
\* grows, so every call returns a list.
C25_SplitTerminates ==
    data_divs # NotSplit => data_divs.state = "returned"

(***************************************************************************)
(* Properties of the parser runs that use the pieces of a path             *)
(***************************************************************************)
\* the pieces of the rest of a trimmed path after its base element, between
\* '#'; none when nothing follows the base element
PiecesOfPath(path) ==
    LET Between(cuts) ==
            [k \in 1..(Len(cuts) - 1) |-> SubSeq(path, cuts[k] + 1, cuts[k + 1] - 1)]
    IN  IF BaseEnd(path) = Len(path) THEN <<>>
        ELSE Between(<<BaseEnd(path)>>
                       \o Ascending({i \in (BaseEnd(path) + 1)..Len(path) : path[i] = "#"})
                       \o <<Len(path) + 1>>)

\* the places of the opening tags of a piece: each '<' with no '/' after it
OpeningTags(piece) ==
    Ascending({i \in 1..Len(piece) : piece[i] = "<" /\ (i = Len(piece) \/ piece[i + 1] # "/")})

\* the text between the '>' of the tag at place i and the next '<' or the
\* end of the piece; the empty sequence is 'absent'
InlineText(piece, i) ==
    LET Upto(from, to) == SubSeq(piece, from + 1, to - 1)
    IN  Upto(Least({j \in i..Len(piece) : piece[j] = ">"}),
             Least({k \in (i + 1)..Len(piece) : piece[k] = "<"} \cup {Len(piece) + 1}))

\* C22: for every piece of a well-formed path the parsed section has one
\* element for each opening tag, in the order of the path, with the name of
\* the tag, and none for a closing tag; the inline data of an element is the
\* text between its opening tag and the next tag or the end of the piece,
\* and is absent when there is no such text.
C22_ElementsAreOpeningTags ==
    LET Holds(pieces) ==
            /\ loc.ok
            /\ Len(loc.sections) = Len(pieces)
            /\ \A k \in 1..Len(loc.sections) :
                  /\ Len(loc.sections[k]) = Len(OpeningTags(pieces[k]))
                  /\ \A e \in 1..Len(loc.sections[k]) :
                        /\ loc.sections[k][e].element = <<pieces[k][OpeningTags(pieces[k])[e] + 1]>>
                        /\ loc.sections[k][e].data = InlineText(pieces[k], OpeningTags(pieces[k])[e])
    IN  (loc # NotParsed /\ raw \in WellFormedPaths \cup InlinePaths) =>
            Holds(PiecesOfPath(PyStrip(raw)))

\* the path of tests.py line 63 has been parsed: one section of three
\* elements, the second with the inline text 'United States'
C22_Witness ==
    /\ loc # NotParsed
    /\ loc.ok
    /\ raw \in InlinePaths
    /\ Len(loc.sections) = 1
    /\ Len(loc.sections[1]) = 3
    /\ loc.sections[1][2].data = <<"United", " ", "States">>
    /\ loc.sections[1][3].data = None

(***************************************************************************)
(* Properties of the sheet runs                                            *)
(***************************************************************************)
\* a cell of the sheets without the blanks around it, by hand
Trimmed(cell) ==
    CASE cell = <<" ", "x", " ">> -> <<"x">>
      [] cell = <<" ", "m2">> -> <<"m2">>
      [] cell = <<" ">> -> <<>>
      [] OTHER -> cell

\* the places of the data rows that have an id, in row order
KeptRows == Ascending({r \in 1..Len(sheet.rows) : sheet.rows[r][1] # <<>>})

\* the columns (from 1) of the layouts whose control-row cell starts with
\* '<mods', by hand
MappedColumns ==
    IF sheet.ctrl_row[2] = PathTitle THEN {2, 4}
    ELSE IF sheet.ctrl_row[2] = <<"Mods", " ", "ID">> THEN {3, 4}
    ELSE {2, 3, 4}

\* the cells of a data row that are assigned: in a mapped column and not
\* empty, in column order, each with the path of its column
Assignments(r) ==
    LET Cells(cols) ==
            [j \in 1..Len(cols) |-> <<sheet.ctrl_row[cols[j]], sheet.rows[r][cols[j]]>>]
    IN  Cells(Ascending({c \in MappedColumns : sheet.rows[r][c] # <<>>}))

\* C18: the field assignments of the record of a data row are exactly the
\* cells of the row whose control-row cell starts with '<mods' and whose
\* value is not empty, in column order, and process() calls add_data once
\* for each assignment of a record, in that order.
C18_AssignmentsInColumnOrder ==
    (got_records /\ raised # "no ID column") =>
        /\ Len(records) = Len(KeptRows)
        /\ \A k \in 1..Len(records) : records[k].field_data = Assignments(KeptRows[k])
        /\ Len(called) = index - 1
        /\ \A k \in 1..Len(called) : called[k] = Assignments(KeptRows[k])

\* a sheet with a mods-id path column whose second row has an empty title:
\* three calls for the first record, two for the second, all made
C18_Witness ==
    /\ Len(called) = 2
    /\ Len(called[1]) = 3
    /\ Len(called[2]) = 2
    /\ called[2][1][2] = <<" ", "m2">>
    /\ called[2][2][1] = PathSubject

\* the numeral of a count of the sheet runs
Numeral(n) ==
    CASE n = 1 -> "1" [] n = 2 -> "2" [] n = 3 -> "3" [] n = 4 -> "4" [] n = 5 -> "5"

\* how many of the first k records have the id of the k-th
Occurrence(k) ==
    Cardinality({j \in 1..k : Trimmed(sheet.rows[KeptRows[j]][1])
                                  = Trimmed(sheet.rows[KeptRows[k]][1])})

\* the mods id the k-th record is to have
ExpectedModsId(k) ==
    LET id == Trimmed(sheet.rows[KeptRows[k]][1])
    IN  IF MappedColumns # {2, 4} THEN Trimmed(sheet.rows[KeptRows[k]][2])
        ELSE IF sheet.obj_type = "child" THEN id \o <<"_", Numeral(Occurrence(k))>>
        ELSE IF Occurrence(k) = 1 THEN id
        ELSE id \o <<"_", Numeral(Occurrence(k) - 1)>>

\* C19: without a mods-id column the mods id of a record is made from its
\* id in row order: in a child-type dataset the n-th record with id X gets
\* X_n; in a parent-type dataset the first gets X and the n-th later one
\* X_n.  With a mods-id column it is the trimmed value of that column.
C19_ModsIdFromIdOrColumn ==
    (got_records /\ raised # "no ID column") =>
        /\ Len(records) = Len(KeptRows)
        /\ \A k \in 1..Len(records) :
              /\ records[k].id = Trimmed(sheet.rows[KeptRows[k]][1])
              /\ records[k].mods_id = ExpectedModsId(k)

\* a parent-type sheet without mods-id column and with three rows of id x
\* (one written ' x '): the mods ids are x, x_1 and x_2
C19_Witness ==
    /\ got_records
    /\ sheet.obj_type = "parent"
    /\ MappedColumns = {2, 4}
    /\ Len(records) = 3
    /\ sheet.rows[2][1] = <<" ", "x", " ">>
    /\ records[1].mods_id = <<"x">>
    /\ records[2].mods_id = <<"x", "_", "1">>
    /\ records[3].mods_id = <<"x", "_", "2">>

\* C28: without a mods-id column the mods ids one get_mods_records call
\* makes are pairwise distinct over the records it returns, for every
\* sequence of row ids, ids that look like 'X_1' too.
C28_ModsIdsDistinct ==
    (got_records /\ raised # "no ID column" /\ MappedColumns = {2, 4}) =>
        \A i, j \in 1..Len(records) : i # j => records[i].mods_id # records[j].mods_id

(***************************************************************************)
(* Properties of the date runs                                             *)
(***************************************************************************)
\* a calendar date: the year from 1 on, and a day the month has
IsCalendarDate(year, month, day) ==
    year >= 1 /\ month \in 1..12 /\ day \in 1..DaysInMonth(year, month)

\* the date a text of one of the shapes d/d/yy, d/d/yyyy, d-d-yy, d-d-yyyy
\* stands for, read month first when that is a date and day first otherwise;
\* <<>> when the text has none of the shapes or is a date in neither reading.
\* A year of two digits is a year of 1969..2068
DateRead(text) ==
    LET shapes == { Fields3(text, sep, n) : sep \in Separators, n \in {2, 4} } \ {<<>>}
        Century(y, n) == IF n = 4 THEN y ELSE IF y >= 69 THEN 1900 + y ELSE 2000 + y
        Read(a, b, y, n) ==
            IF IsCalendarDate(y, a, b)
            THEN << [year |-> y, month |-> a, day |-> b, digits |-> n] >>
            ELSE IF IsCalendarDate(y, b, a)
            THEN << [year |-> y, month |-> b, day |-> a, digits |-> n] >>
            ELSE <<>>
        Of(f) ==
            Read(IntOfDigits(f[1]), IntOfDigits(f[2]),
                 Century(IntOfDigits(f[3]), Len(f[3])), Len(f[3]))
    IN  IF shapes = {} THEN <<>> ELSE Of(CHOOSE f \in shapes : TRUE)

\* the day could be the month, or the century is not given
IsAmbiguous(date) == (date.day <= 12 /\ date.day # date.month) \/ date.digits = 2

\* the date as yyyy-mm-dd
YyyyMmDd(date) ==
    ZeroPadded(date.year, 4) \o <<"-">> \o ZeroPadded(date.month, 2) \o <<"-">>
        \o ZeroPadded(date.day, 2)

\* C21: process_text_date returns its argument unchanged when it is not a
\* string, is empty, has none of the shapes d/d/yy, d/d/yyyy, d-d-yy, d-d-yyyy
\* or, with forceDates false, is ambiguous (the day is at most 12 and is not
\* the month, or the year has two digits); it returns the date as yyyy-mm-dd
\* for an unambiguous date with a year of four digits, and for any date that
\* parses when forceDates is true
C21_TextDateReturned ==
    LET Holds(read) ==
            IF read # <<>> /\ (forceDates \/ ~IsAmbiguous(read[1]))
            THEN text_date = Returned(Unicode(YyyyMmDd(read[1])))
            ELSE text_date = Returned(strDate)
    IN  text_date # NotCalled =>
            Holds(IF strDate.type = "unicode" THEN DateRead(strDate.value) ELSE <<>>)

====
